---- MODULE Spec2Model ----
(***************************************************************************)
(* A model of the memory-forensics core: the remote-memory read primitives *)
(* of MemoryScanner, the .NET BigInteger structure reader, the             *)
(* ObscuredBigInteger record reader and its SymmetricShuffle decryption.   *)
(*                                                                         *)
(* Representation.  The model checker's integers are 32-bit signed, so a   *)
(* 32-bit word (int32_t, uint32_t) is kept as its four bytes and a 64-bit  *)
(* word (uint64_t, MemoryAddress, a pointer) as its eight bytes, least     *)
(* significant byte first, exactly as they lie in the little-endian target *)
(* memory.  Bitwise and arithmetic operations are defined on the bytes and *)
(* keep the width of the C++ type.                                         *)
(***************************************************************************)
EXTENDS Integers, Sequences, FiniteSets, TLC

VARIABLES
    mem,        \* target process memory: mapped regions and their bytes
    cipher,     \* DecryptBigIntegerContents applied once and twice to a tuple
    bigint,     \* the last DotNetBigIntegerReader::ReadBigInteger call
    raw,        \* the last ObscuredBigIntegerReader::ReadBigIntegerContents call
    record,     \* the last ObscuredBigIntegerReader::ReadObscuredBigInteger call
    decrypted,  \* the last DecryptHiddenValue / DecryptedValueTo* calls
    overlay,    \* a ReadSerializableBigInteger call, view by view
    scan,       \* MemoryScanner: scan_regions_ and the last ScanForPattern call
    stepwise,   \* a ReadBigInteger call, memory read by memory read
    format,     \* BigIntegerToString applied to a value
    threads,    \* two threads, each in a read call of its own
    logger,     \* AppLogger: the indent level all threads share
    verbose,    \* the last pair of a plain and a verbose read call
    procmgr,    \* ProcessManager: process_id_, process_handle_, open handles
    parser      \* DotNetParser: the method-table cache and the last lookup

vars == <<mem, cipher, bigint, raw, record, decrypted, overlay, scan, stepwise, format, threads, logger, verbose, procmgr, parser>>

(***************************************************************************)
(* Bytes and fixed-width words                                             *)
(***************************************************************************)
Byte == 0..255

\* The four bytes of the 32-bit word with value n (0 <= n < 2^31).
U32(n) == << n % 256, (n \div 256) % 256, (n \div 65536) % 256, (n \div 16777216) % 256 >>

\* The eight bytes of the 64-bit word with value n (0 <= n < 2^31).
U64(n) == U32(n) \o <<0, 0, 0, 0>>

ZeroWord == <<0, 0, 0, 0>>

\* int32_t -1, as its bit pattern.
MinusOne == <<255, 255, 255, 255>>

\* nullptr / address 0.
NullPtr == <<0, 0, 0, 0, 0, 0, 0, 0>>

\* Bitwise exclusive or of two n-bit naturals (C++ operator ^).
RECURSIVE XorBits(_, _, _)
XorBits(a, b, n) ==
    IF n = 0 THEN 0
    ELSE (((a % 2) + (b % 2)) % 2) + 2 * XorBits(a \div 2, b \div 2, n - 1)

\* a ^ b on 32-bit words.
Xor32(a, b) == [i \in 1..4 |-> XorBits(a[i], b[i], 8)]

\* a + n on a little-endian byte string, carry c, wrapping at the width.
RECURSIVE AddBytes(_, _)
AddBytes(bs, c) ==
    IF bs = <<>> THEN <<>>
    ELSE LET s == bs[1] + c
         IN  <<s % 256>> \o AddBytes(Tail(bs), s \div 256)

\* address + n for a MemoryAddress (uintptr_t, 64 bits) and a small offset n.
AddrAdd(addr, n) == AddBytes(addr, n)

\* a <= b on unsigned little-endian words of equal width, most significant
\* byte first.
RECURSIVE LessEqFrom(_, _, _)
LessEqFrom(a, b, i) ==
    IF i = 0 THEN TRUE
    ELSE IF a[i] < b[i] THEN TRUE
    ELSE IF a[i] > b[i] THEN FALSE
    ELSE LessEqFrom(a, b, i - 1)

LessEq(a, b) == LessEqFrom(a, b, Len(a))

(***************************************************************************)
(* The SymmetricShuffle cipher                                             *)
(***************************************************************************)

\* A plausible slip: the last limb is stored without the key applied.
DecryptBigIntegerContents_LastNoXor(encrypted, key) ==
    LET count == Len(encrypted.bits_data)
    IN  [encrypted EXCEPT
            !.sign = Xor32(@, key),
            !.bits_data =
                IF count = 0 THEN @
                ELSE IF count = 1 THEN <<Xor32(@[1], key)>>
                ELSE [@ EXCEPT ![1] = Xor32(encrypted.bits_data[count], key),
                               ![count] = encrypted.bits_data[1]]]

\* A plausible slip: every limb is XOR-ed in place, without the swap.
DecryptBigIntegerContents_XorAll(encrypted, key) ==
    [encrypted EXCEPT
        !.sign = Xor32(@, key),
        !.bits_data = [i \in 1..Len(@) |-> Xor32(@[i], key)]]

\* ObscuredBigIntegerReader::DecryptBigIntegerContents.  result starts as a
\* copy of encrypted; count is bits_data.size(), not bits_length.
DecryptBigIntegerContents(encrypted, key) ==
    LET count == Len(encrypted.bits_data)
        first == encrypted.bits_data[1]
        last  == encrypted.bits_data[count]
    IN  [encrypted EXCEPT
            !.sign = Xor32(@, key),
            !.bits_data =
                IF count = 0 THEN @
                ELSE IF count = 1 THEN <<Xor32(first, key)>>
                ELSE [@ EXCEPT ![1] = Xor32(last, key),
                               ![count] = Xor32(first, key)]]

(***************************************************************************)
(* Optional results                                                        *)
(***************************************************************************)
None == [ok |-> FALSE]

Some(v) == [ok |-> TRUE, value |-> v]

(***************************************************************************)
(* Remote memory reads (ProcessManager, MemoryScanner)                     *)
(***************************************************************************)

\* common.hpp: MAX_READ_SIZE = 0x1000000.
MAX_READ_SIZE == 16777216

\* The byte index of an address the model can map (below 2^31), or -1.
AddrIndex(address) ==
    IF /\ \A i \in 5..8 : address[i] = 0
       /\ address[4] < 128
    THEN address[1] + 256 * address[2] + 65536 * address[3] + 16777216 * address[4]
    ELSE -1

\* Target memory is a set of mapped regions <<first, limit>> of byte indices
\* and the bytes in them that are not zero.
IsMapped(m, a) == \E r \in m.regions : r[1] <= a /\ a < r[2]

ByteAt(m, a) == IF a \in DOMAIN m.data THEN m.data[a] ELSE 0

\* ProcessManager::ReadMemory on an attached process: the size checks, then
\* ReadProcessMemory, which succeeds only if all size bytes are readable.
ReadMemory(m, address, size) ==
    LET at == AddrIndex(address)
    IN  IF size = 0 \/ size > MAX_READ_SIZE THEN None
        ELSE IF at < 0 \/ \E i \in 0..(size - 1) : ~IsMapped(m, at + i) THEN None
        ELSE Some([i \in 1..size |-> ByteAt(m, at + i - 1)])

\* MemoryScanner::ReadValue<T>, by sizeof(T).
ReadValue(m, address, size) == ReadMemory(m, address, size)

ReadInt32(m, address) == ReadValue(m, address, 4)

ReadUInt32(m, address) == ReadValue(m, address, 4)

ReadUInt64(m, address) == ReadValue(m, address, 8)

\* The byte read into a bool; the images hold only 0 and 1 there.
ReadBool(m, address) ==
    LET b == ReadValue(m, address, 1)
    IN  IF b.ok THEN Some(b.value[1] # 0) ELSE None

\* MemoryScanner::ReadUInt32Array: count elements read one by one at
\* address + i * sizeof(uint32_t); any element that cannot be read fails the
\* whole array; count 0 yields an empty vector without a read.
ReadUInt32Array(m, address, count) ==
    IF count = 0 THEN Some(<<>>)
    ELSE LET value == [i \in 1..count |-> ReadUInt32(m, AddrAdd(address, (i - 1) * 4))]
         IN  IF \E i \in 1..count : ~value[i].ok THEN None
             ELSE Some([i \in 1..count |-> value[i].value])

(***************************************************************************)
(* DotNetBigIntegerReader                                                  *)
(***************************************************************************)
MIN_VALID_POINTER == U64(65536)

MAX_VALID_POINTER == <<255, 255, 255, 255, 255, 127, 0, 0>>

MAX_REASONABLE_BITS_LENGTH == 10000

\* const uint32_t max_probe_length = 32.
max_probe_length == 32

IsValidPointer(address) ==
    LessEq(MIN_VALID_POINTER, address) /\ LessEq(address, MAX_VALID_POINTER)

IsValidBitsLength(length) == length <= MAX_REASONABLE_BITS_LENGTH

\* A plausible slip: the window is scanned from its start, and the scan
\* stops at the first non-zero element.
LastNonZero_FromStart(probe_array, n) ==
    IF \A i \in 1..n : probe_array[i] = ZeroWord THEN 0
    ELSE CHOOSE i \in 1..n :
             /\ probe_array[i] # ZeroWord
             /\ \A k \in 1..(i - 1) : probe_array[k] = ZeroWord

\* The backward scan of the probe window: i + 1 for the highest index i whose
\* element is non-zero, 0 when there is none (n is the number of elements
\* still to look at).
RECURSIVE LastNonZero(_, _)
LastNonZero(probe_array, n) ==
    IF n = 0 THEN 0
    ELSE IF probe_array[n] # ZeroWord THEN n
    ELSE LastNonZero(probe_array, n - 1)

\* A plausible slip: the clamp to one limb is left out.
ActualLength_NoClamp(probe_array, sign) == LastNonZero(probe_array, Len(probe_array))

\* A plausible slip: a recovered length above the limit is cut to the limit
\* (here put at 2 limbs) instead of being rejected.
ActualLength_Truncates(probe_array, sign) ==
    LET found == LastNonZero(probe_array, Len(probe_array))
        length == IF found = 0 /\ sign # ZeroWord THEN 1 ELSE found
    IN  IF length > 2 THEN 2 ELSE length

\* actual_length as both readers derive it from the probe and the sign.
ActualLength(probe_array, sign) ==
    LET found == LastNonZero(probe_array, Len(probe_array))
    IN  IF found = 0 /\ sign # ZeroWord THEN 1 ELSE found

\* DotNetBigIntegerReader::ReadBigInteger.
ReadBigInteger(m, base_address) ==
    IF ~IsValidPointer(base_address) THEN None
    ELSE
    LET sign_opt == ReadInt32(m, base_address) IN
    IF ~sign_opt.ok THEN None
    ELSE
    LET bits_ptr_opt == ReadUInt64(m, AddrAdd(base_address, 4)) IN
    IF ~bits_ptr_opt.ok THEN None
    ELSE IF ~IsValidPointer(bits_ptr_opt.value) THEN None
    ELSE
    LET probe_array == ReadUInt32Array(m, bits_ptr_opt.value, max_probe_length) IN
    IF ~probe_array.ok THEN None
    ELSE
    LET actual_length == ActualLength(probe_array.value, sign_opt.value) IN
    IF ~IsValidBitsLength(actual_length) THEN None
    ELSE
    LET bits_data_opt ==
            IF actual_length > 0
            THEN ReadUInt32Array(m, bits_ptr_opt.value, actual_length)
            ELSE Some(<<>>)
    IN
    IF ~bits_data_opt.ok THEN None
    ELSE Some([sign        |-> sign_opt.value,
               bits_ptr    |-> bits_ptr_opt.value,
               bits_length |-> actual_length,
               bits_data   |-> bits_data_opt.value,
               is_valid    |-> TRUE])

\* DotNetBigIntegerReader::ReadBigIntegerVerbose: the same reads, block by
\* block, with logging between them.
ReadBigIntegerVerbose(m, base_address) ==
    IF ~IsValidPointer(base_address) THEN None
    ELSE
    LET sign_opt == ReadInt32(m, base_address) IN
    IF ~sign_opt.ok THEN None
    ELSE
    LET bits_ptr_address == AddrAdd(base_address, 4)
        bits_ptr_opt == ReadUInt64(m, bits_ptr_address)
    IN
    IF ~bits_ptr_opt.ok THEN None
    ELSE IF ~IsValidPointer(bits_ptr_opt.value) THEN None
    ELSE
    LET bits_address == bits_ptr_opt.value
        probe_array == ReadUInt32Array(m, bits_address, max_probe_length)
    IN
    IF ~probe_array.ok THEN None
    ELSE
    LET actual_length == ActualLength(probe_array.value, sign_opt.value) IN
    IF ~IsValidBitsLength(actual_length) THEN None
    ELSE IF actual_length > 0
    THEN LET bits_data_opt == ReadUInt32Array(m, bits_address, actual_length)
         IN  IF ~bits_data_opt.ok THEN None
             ELSE Some([sign        |-> sign_opt.value,
                        bits_ptr    |-> bits_ptr_opt.value,
                        bits_length |-> actual_length,
                        bits_data   |-> bits_data_opt.value,
                        is_valid    |-> TRUE])
    ELSE Some([sign        |-> sign_opt.value,
               bits_ptr    |-> bits_ptr_opt.value,
               bits_length |-> actual_length,
               bits_data   |-> <<>>,
               is_valid    |-> TRUE])

(***************************************************************************)
(* ObscuredBigIntegerReader                                                *)
(***************************************************************************)

\* sizeof(SerializableBigInteger), the C++ struct of obscured_biginteger_reader.hpp
\* on a 64-bit build (8-byte pointers, 24-byte std::vector):
\* DotNetBigIntegerData 56 + BigIntegerContents 48 + bool and padding 8.
SizeofSerializableBigInteger == 112

\* The reader's own copy of the pointer check (same bounds).
Obscured_IsValidPointer(address) ==
    LessEq(MIN_VALID_POINTER, address) /\ LessEq(address, MAX_VALID_POINTER)

\* ObscuredBigIntegerReader::ReadBigIntegerContents.
ReadBigIntegerContents(m, address) ==
    LET sign == ReadInt32(m, address) IN
    IF ~sign.ok THEN None
    ELSE
    LET bits_ptr == ReadUInt64(m, AddrAdd(address, 4)) IN
    IF ~bits_ptr.ok THEN None
    ELSE IF bits_ptr.value = NullPtr
    THEN Some([sign        |-> sign.value,
               bits_ptr    |-> bits_ptr.value,
               bits_length |-> 0,
               bits_data   |-> <<>>])
    ELSE IF ~Obscured_IsValidPointer(bits_ptr.value) THEN None
    ELSE
    LET bits_address == bits_ptr.value
        probe_array == ReadUInt32Array(m, bits_address, max_probe_length)
    IN
    IF ~probe_array.ok THEN None
    ELSE
    LET actual_length == ActualLength(probe_array.value, sign.value) IN
    IF actual_length > 0
    THEN LET bits_data == ReadUInt32Array(m, bits_address, actual_length)
         IN  IF ~bits_data.ok THEN None
             ELSE Some([sign        |-> sign.value,
                        bits_ptr    |-> bits_ptr.value,
                        bits_length |-> actual_length,
                        bits_data   |-> bits_data.value])
    ELSE Some([sign        |-> sign.value,
               bits_ptr    |-> bits_ptr.value,
               bits_length |-> actual_length,
               bits_data   |-> <<>>])

\* A default-initialized DotNetBigIntegerData: sign, bits_ptr and bits_length
\* have no initializer and hold whatever g the storage held; bits_data is
\* empty and is_valid is false.
Uninitialized(g) ==
    [sign        |-> g.sign,
     bits_ptr    |-> g.bits_ptr,
     bits_length |-> g.bits_length,
     bits_data   |-> <<>>,
     is_valid    |-> FALSE]

\* ReadSerializableBigInteger, first view: the BigInteger read; on failure
\* result.bigint_value stays as default-initialized.
Serializable_ValueView(m, address, g) ==
    LET bigint_data == ReadBigIntegerVerbose(m, address)
    IN  IF bigint_data.ok THEN bigint_data.value ELSE Uninitialized(g)

\* ReadSerializableBigInteger, second view: the raw contents read, whose
\* failure fails the whole call.
Serializable_RawView(m, address, bigint_value) ==
    LET raw_contents == ReadBigIntegerContents(m, address)
    IN  IF raw_contents.ok
        THEN Some([bigint_value |-> bigint_value,
                   raw_contents |-> raw_contents.value,
                   is_valid     |-> TRUE])
        ELSE None

\* ObscuredBigIntegerReader::ReadSerializableBigInteger over one memory.
ReadSerializableBigInteger(m, address, g) ==
    Serializable_RawView(m, address, Serializable_ValueView(m, address, g))

\* One entry of the list of field reads a record read has issued.
FieldRead(field, address, ok) == [field |-> field, address |-> address, ok |-> ok]

\* A plausible slip: a flag byte that cannot be read is taken as false and
\* the record is still assembled.
ReadKeyAndFlags_KeepsPartial(m, key_offset, hidden_value, fake_value, reads) ==
    LET crypto_key == ReadUInt32(m, key_offset)
        reads3     == Append(reads, FieldRead("currentCryptoKey", key_offset, crypto_key.ok))
    IN
    IF ~crypto_key.ok THEN [res |-> None, reads |-> reads3]
    ELSE
    LET active_offset == AddrAdd(key_offset, 4)
        fake_active   == ReadBool(m, active_offset)
        reads4        == Append(reads3, FieldRead("fakeValueActive", active_offset, fake_active.ok))
        inited_offset == AddrAdd(active_offset, 1)
        inited        == ReadBool(m, inited_offset)
        reads5        == Append(reads4, FieldRead("inited", inited_offset, inited.ok))
    IN  [res   |-> Some([hidden_value       |-> hidden_value,
                         fake_value         |-> fake_value,
                         current_crypto_key |-> crypto_key.value,
                         fake_value_active  |-> IF fake_active.ok THEN fake_active.value
                                                ELSE FALSE,
                         inited             |-> IF inited.ok THEN inited.value ELSE FALSE,
                         is_valid           |-> TRUE]),
         reads |-> reads5]

\* ReadObscuredBigInteger from the key on: currentCryptoKey, fakeValueActive
\* and inited, each read failing the call, then the assembled record.
ReadKeyAndFlags(m, key_offset, hidden_value, fake_value, reads) ==
    LET crypto_key == ReadUInt32(m, key_offset)
        reads3     == Append(reads, FieldRead("currentCryptoKey", key_offset, crypto_key.ok))
    IN
    IF ~crypto_key.ok THEN [res |-> None, reads |-> reads3]
    ELSE
    LET active_offset == AddrAdd(key_offset, 4)
        fake_active   == ReadBool(m, active_offset)
        reads4        == Append(reads3, FieldRead("fakeValueActive", active_offset, fake_active.ok))
    IN
    IF ~fake_active.ok THEN [res |-> None, reads |-> reads4]
    ELSE
    LET inited_offset == AddrAdd(active_offset, 1)
        inited        == ReadBool(m, inited_offset)
        reads5        == Append(reads4, FieldRead("inited", inited_offset, inited.ok))
    IN
    IF ~inited.ok THEN [res |-> None, reads |-> reads5]
    ELSE [res   |-> Some([hidden_value       |-> hidden_value,
                          fake_value         |-> fake_value,
                          current_crypto_key |-> crypto_key.value,
                          fake_value_active  |-> fake_active.value,
                          inited             |-> inited.value,
                          is_valid           |-> TRUE]),
          reads |-> reads5]

\* A plausible slip: a decoy value that cannot be read does not end the
\* call at once; the key and the flags are still read before it fails.
ReadObscuredBigInteger_ReadsOn(m, base_address, g) ==
    IF ~Obscured_IsValidPointer(base_address) THEN [res |-> None, reads |-> <<>>]
    ELSE
    LET hidden_offset == base_address
        hidden_value  == ReadSerializableBigInteger(m, hidden_offset, g)
        reads1        == <<FieldRead("hiddenValue", hidden_offset, hidden_value.ok)>>
    IN
    IF ~hidden_value.ok THEN [res |-> None, reads |-> reads1]
    ELSE
    LET fake_offset == AddrAdd(hidden_offset, SizeofSerializableBigInteger)
        fake_value  == ReadSerializableBigInteger(m, fake_offset, g)
        reads2      == Append(reads1, FieldRead("fakeValue", fake_offset, fake_value.ok))
        rest        == ReadKeyAndFlags(m, AddrAdd(fake_offset, SizeofSerializableBigInteger),
                                       hidden_value.value, hidden_value.value, reads2)
    IN
    IF ~fake_value.ok THEN [res |-> None, reads |-> rest.reads]
    ELSE ReadKeyAndFlags(m, AddrAdd(fake_offset, SizeofSerializableBigInteger),
                         hidden_value.value, fake_value.value, reads2)

\* ObscuredBigIntegerReader::ReadObscuredBigInteger.  The result is paired
\* with the field reads issued, in order (reads); g is what uninitialized
\* storage holds.
ReadObscuredBigInteger(m, base_address, g) ==
    IF ~Obscured_IsValidPointer(base_address) THEN [res |-> None, reads |-> <<>>]
    ELSE
    LET hidden_offset == base_address
        hidden_value  == ReadSerializableBigInteger(m, hidden_offset, g)
        reads1        == <<FieldRead("hiddenValue", hidden_offset, hidden_value.ok)>>
    IN
    IF ~hidden_value.ok THEN [res |-> None, reads |-> reads1]
    ELSE
    LET fake_offset == AddrAdd(hidden_offset, SizeofSerializableBigInteger)
        fake_value  == ReadSerializableBigInteger(m, fake_offset, g)
        reads2      == Append(reads1, FieldRead("fakeValue", fake_offset, fake_value.ok))
    IN
    IF ~fake_value.ok THEN [res |-> None, reads |-> reads2]
    ELSE ReadKeyAndFlags(m, AddrAdd(fake_offset, SizeofSerializableBigInteger),
                         hidden_value.value, fake_value.value, reads2)

\* ObscuredBigIntegerReader::DecryptSerializableBigInteger: a copy of
\* encrypted with raw_contents decrypted; bigint_value is kept as it was.
DecryptSerializableBigInteger(encrypted, key) ==
    [encrypted EXCEPT !.raw_contents = DecryptBigIntegerContents(encrypted.raw_contents, key)]

\* A plausible slip: the decoy is handed out while it is active.
DecryptHiddenValue_DecoyWhenActive(obscured) ==
    IF ~obscured.is_valid THEN None
    ELSE LET decrypted_serializable ==
                 DecryptSerializableBigInteger(
                     IF obscured.fake_value_active THEN obscured.fake_value
                     ELSE obscured.hidden_value,
                     obscured.current_crypto_key)
         IN  Some(decrypted_serializable.bigint_value)

\* ObscuredBigIntegerReader::DecryptHiddenValue.
DecryptHiddenValue(obscured) ==
    IF ~obscured.is_valid THEN None
    ELSE LET decrypted_serializable ==
                 DecryptSerializableBigInteger(obscured.hidden_value,
                                               obscured.current_crypto_key)
         IN  Some(decrypted_serializable.bigint_value)

(***************************************************************************)
(* Formatting.  A text is a sequence of one-character strings.             *)
(***************************************************************************)
DigitChar(d) == <<"0", "1", "2", "3", "4", "5", "6", "7", "8", "9",
                  "a", "b", "c", "d", "e", "f">>[d + 1]

\* The bytes of a word, most significant first.
BigEndian(w) == [i \in 1..Len(w) |-> w[Len(w) + 1 - i]]

\* Long division by 10 of a big-endian byte string: <<quotient, remainder>>.
RECURSIVE DivBytes10(_, _)
DivBytes10(be, rem) ==
    IF be = <<>> THEN << <<>>, rem >>
    ELSE LET cur  == rem * 256 + be[1]
             rest == DivBytes10(Tail(be), cur % 10)
         IN  << <<cur \div 10>> \o rest[1], rest[2] >>

RECURSIVE DecimalDigits(_)
DecimalDigits(be) ==
    IF \A i \in 1..Len(be) : be[i] = 0 THEN <<>>
    ELSE LET d == DivBytes10(be, 0)
         IN  Append(DecimalDigits(d[1]), DigitChar(d[2]))

\* std::to_string of the int64_t obtained from a uint32_t limb, negated when
\* negative is set (the magnitude fits, so the negation cannot overflow).
StdToString(limb, negative) ==
    IF limb = ZeroWord THEN <<"0">>
    ELSE (IF negative THEN <<"-">> ELSE <<>>) \o DecimalDigits(BigEndian(limb))

\* The eight hexadecimal digits of a limb (std::setw(8), std::setfill('0')).
Hex8(limb) ==
    LET be == BigEndian(limb)
    IN  [i \in 1..8 |-> DigitChar(IF i % 2 = 1 THEN be[(i + 1) \div 2] \div 16
                                              ELSE be[i \div 2] % 16)]

RECURSIVE StripZeros(_)
StripZeros(t) ==
    IF Len(t) > 1 /\ t[1] = "0" THEN StripZeros(Tail(t)) ELSE t

\* std::hex of a limb with no field width: no leading zeros.
Hex(limb) == StripZeros(Hex8(limb))

\* int32_t sign < 0, on the bit pattern.
IsNegative(sign) == sign[4] >= 128

\* The loop of BigIntegerToHex from limb i (1-based) down to the first.
RECURSIVE HexLimbs(_, _, _)
HexLimbs(bits_data, i, top) ==
    IF i = 0 THEN <<>>
    ELSE (IF i = top THEN Hex(bits_data[i]) ELSE Hex8(bits_data[i]))
         \o HexLimbs(bits_data, i - 1, top)

\* DotNetBigIntegerReader::BigIntegerToHex.
BigIntegerToHex(b) ==
    IF ~b.is_valid \/ b.bits_length = 0 THEN <<"0", "x", "0">>
    ELSE <<"0", "x">> \o (IF IsNegative(b.sign) THEN <<"-">> ELSE <<>>)
         \o HexLimbs(b.bits_data, b.bits_length, b.bits_length)

\* DotNetBigIntegerReader::BigIntegerToString.
BigIntegerToString(b) ==
    IF ~b.is_valid THEN <<"I", "N", "V", "A", "L", "I", "D">>
    ELSE IF b.sign = ZeroWord \/ b.bits_length = 0 THEN <<"0">>
    ELSE IF b.bits_length = 1 THEN StdToString(b.bits_data[1], IsNegative(b.sign))
    ELSE BigIntegerToHex(b)

DECRYPTION_FAILED ==
    <<"D", "E", "C", "R", "Y", "P", "T", "I", "O", "N", "_", "F", "A", "I", "L", "E", "D">>

\* ObscuredBigIntegerReader::DecryptedValueToString.
DecryptedValueToString(obscured) ==
    LET d == DecryptHiddenValue(obscured)
    IN  IF ~d.ok THEN DECRYPTION_FAILED ELSE BigIntegerToString(d.value)

\* ObscuredBigIntegerReader::DecryptedValueToHex.
DecryptedValueToHex(obscured) ==
    LET d == DecryptHiddenValue(obscured)
    IN  IF ~d.ok THEN DECRYPTION_FAILED ELSE BigIntegerToHex(d.value)

(***************************************************************************)
(* ObscuredBigIntegerReader: the verbose record reader                     *)
(***************************************************************************)
\* ReadObscuredBigIntegerVerbose, the closing block: the hidden value is
\* decrypted and formatted for the log; the record is returned as read.
Verbose_LogDecrypted(result) ==
    LET decrypted_value == DecryptHiddenValue(result)
    IN  [res    |-> Some(result),
         logged |-> IF decrypted_value.ok THEN BigIntegerToString(decrypted_value.value)
                    ELSE <<>>]

\* ObscuredBigIntegerReader::ReadObscuredBigIntegerVerbose: the field reads
\* block by block; logged is the decrypted value's text written to the log.
\* g is what uninitialized storage holds.
ReadObscuredBigIntegerVerbose(m, base_address, g) ==
    IF ~Obscured_IsValidPointer(base_address) THEN [res |-> None, logged |-> <<>>]
    ELSE
    LET hidden_value == ReadSerializableBigInteger(m, base_address, g) IN
    IF ~hidden_value.ok THEN [res |-> None, logged |-> <<>>]
    ELSE
    LET fake_offset == AddrAdd(base_address, SizeofSerializableBigInteger)
        fake_value  == ReadSerializableBigInteger(m, fake_offset, g)
    IN
    IF ~fake_value.ok THEN [res |-> None, logged |-> <<>>]
    ELSE
    LET key_offset == AddrAdd(fake_offset, SizeofSerializableBigInteger)
        crypto_key == ReadUInt32(m, key_offset)
    IN
    IF ~crypto_key.ok THEN [res |-> None, logged |-> <<>>]
    ELSE
    LET active_offset == AddrAdd(key_offset, 4)
        fake_active   == ReadBool(m, active_offset)
    IN
    IF ~fake_active.ok THEN [res |-> None, logged |-> <<>>]
    ELSE
    LET inited_offset == AddrAdd(active_offset, 1)
        inited        == ReadBool(m, inited_offset)
    IN
    IF ~inited.ok THEN [res |-> None, logged |-> <<>>]
    ELSE Verbose_LogDecrypted([hidden_value       |-> hidden_value.value,
                               fake_value         |-> fake_value.value,
                               current_crypto_key |-> crypto_key.value,
                               fake_value_active  |-> fake_active.value,
                               inited             |-> inited.value,
                               is_valid           |-> TRUE])

(***************************************************************************)
(* MemoryScanner: pattern scan                                             *)
(***************************************************************************)

\* memory_scanner.hpp: SCAN_ALIGNMENT = 4.
SCAN_ALIGNMENT == 4

\* MemoryScanner::IsValidScanRegion.
IsValidScanRegion(region) == region.size > 0 /\ region.base_address # NullPtr

\* MemoryScanner::ReadBytes: the bytes read, or an empty vector when the
\* read fails.
ReadBytes(m, address, size) ==
    LET buffer == ReadMemory(m, address, size)
    IN  IF buffer.ok THEN buffer.value ELSE <<>>

\* What a scan leaves its caller with: the addresses it returned, or the way
\* the process ended instead of returning.
Returned(results) == [outcome |-> "returned", results |-> results]

Ended(how) == [outcome |-> how, results |-> <<>>]

\* Indexing a std::vector past its end is undefined.  A build with checked
\* operator[] ends the process at the first such index.  An unchecked build
\* reads what lies behind the storage: behind a mask that is too short a
\* byte that may or may not be zero (mask_byte), and behind the region buffer
\* byte after byte until an address is not readable.
UndefinedOutcomes ==
    {[checked |-> TRUE, mask_byte |-> 0],
     [checked |-> FALSE, mask_byte |-> 0],
     [checked |-> FALSE, mask_byte |-> 255]}

\* A plausible slip: the mask is not consulted.
RECURSIVE ComparePattern_IgnoresMask(_, _, _, _, _, _)
ComparePattern_IgnoresMask(region_data, i, pattern, mask, j, ub) ==
    IF j = Len(pattern) THEN "match"
    ELSE IF region_data[i + j + 1] # pattern[j + 1] THEN "mismatch"
    ELSE ComparePattern_IgnoresMask(region_data, i, pattern, mask, j + 1, ub)

\* The inner loop of ScanRegionForPattern from pattern index j (0-based) at
\* buffer offset i: "match", "mismatch", or the way the process ended.
RECURSIVE ComparePattern(_, _, _, _, _, _)
ComparePattern(region_data, i, pattern, mask, j, ub) ==
    IF j = Len(pattern) THEN "match"
    ELSE IF mask # <<>> /\ j >= Len(mask) /\ ub.checked THEN "assertion failure"
    ELSE IF mask # <<>> /\ (IF j < Len(mask) THEN mask[j + 1] ELSE ub.mask_byte) = 0
    THEN ComparePattern(region_data, i, pattern, mask, j + 1, ub)
    ELSE IF region_data[i + j + 1] # pattern[j + 1] THEN "mismatch"
    ELSE ComparePattern(region_data, i, pattern, mask, j + 1, ub)

\* A plausible slip: the outer loop advances byte by byte.
RECURSIVE ScanLoop_EveryOffset(_, _, _, _, _, _)
ScanLoop_EveryOffset(region_data, base_address, pattern, mask, i, ub) ==
    IF i > Len(region_data) - Len(pattern) THEN Returned(<<>>)
    ELSE LET match == ComparePattern(region_data, i, pattern, mask, 0, ub)
         IN  IF match \notin {"match", "mismatch"} THEN Ended(match)
             ELSE LET rest == ScanLoop_EveryOffset(region_data, base_address, pattern,
                                                   mask, i + 1, ub)
                  IN  IF rest.outcome # "returned" THEN rest
                      ELSE IF match = "match"
                      THEN Returned(<<AddrAdd(base_address, i)>> \o rest.results)
                      ELSE rest

\* The outer loop of ScanRegionForPattern from offset i, for a pattern no
\* longer than the buffer.
RECURSIVE ScanLoop(_, _, _, _, _, _)
ScanLoop(region_data, base_address, pattern, mask, i, ub) ==
    IF i > Len(region_data) - Len(pattern) THEN Returned(<<>>)
    ELSE LET match == ComparePattern(region_data, i, pattern, mask, 0, ub)
         IN  IF match \notin {"match", "mismatch"} THEN Ended(match)
             ELSE LET rest == ScanLoop(region_data, base_address, pattern, mask,
                                       i + SCAN_ALIGNMENT, ub)
                  IN  IF rest.outcome # "returned" THEN rest
                      ELSE IF match = "match"
                      THEN Returned(<<AddrAdd(base_address, i)>> \o rest.results)
                      ELSE rest

\* MemoryScanner::ScanRegionForPattern.  With a pattern longer than the
\* buffer the unsigned bound region_data.size() - pattern.size() wraps to
\* nearly 2^64 and the loop indexes past the buffer on and on: the process
\* ends, at the first such index in a checked build and at the first address
\* that is not readable otherwise.
ScanRegionForPattern(m, region, pattern, mask, ub) ==
    IF pattern = <<>> THEN Returned(<<>>)
    ELSE LET region_data == ReadBytes(m, region.base_address, region.size)
         IN  IF region_data = <<>> THEN Returned(<<>>)
             ELSE IF Len(pattern) > Len(region_data)
             THEN Ended(IF ub.checked THEN "assertion failure" ELSE "access violation")
             ELSE ScanLoop(region_data, region.base_address, pattern, mask, 0, ub)

\* A plausible slip: a region that cannot be read ends the scan.
RECURSIVE ScanForPattern_StopsAtFailure(_, _, _, _, _)
ScanForPattern_StopsAtFailure(m, scan_regions_, pattern, mask, ub) ==
    IF scan_regions_ = <<>> THEN Returned(<<>>)
    ELSE LET region == Head(scan_regions_) IN
         IF ~IsValidScanRegion(region)
         THEN ScanForPattern_StopsAtFailure(m, Tail(scan_regions_), pattern, mask, ub)
         ELSE IF ReadBytes(m, region.base_address, region.size) = <<>>
         THEN Returned(<<>>)
         ELSE LET region_results == ScanRegionForPattern(m, region, pattern, mask, ub)
                  rest == ScanForPattern_StopsAtFailure(m, Tail(scan_regions_), pattern,
                                                        mask, ub)
              IN  IF region_results.outcome # "returned" THEN region_results
                  ELSE IF rest.outcome # "returned" THEN rest
                  ELSE Returned(region_results.results \o rest.results)

\* MemoryScanner::ScanForPattern(pattern, mask) over scan_regions_.
RECURSIVE ScanForPattern(_, _, _, _, _)
ScanForPattern(m, scan_regions_, pattern, mask, ub) ==
    IF scan_regions_ = <<>> THEN Returned(<<>>)
    ELSE LET region == Head(scan_regions_) IN
         IF ~IsValidScanRegion(region)
         THEN ScanForPattern(m, Tail(scan_regions_), pattern, mask, ub)
         ELSE LET region_results == ScanRegionForPattern(m, region, pattern, mask, ub)
                  rest == ScanForPattern(m, Tail(scan_regions_), pattern, mask, ub)
              IN  IF region_results.outcome # "returned" THEN region_results
                  ELSE IF rest.outcome # "returned" THEN rest
                  ELSE Returned(region_results.results \o rest.results)

(***************************************************************************)
(* Target memory images                                                    *)
(***************************************************************************)

\* Where the images put the record under examination and its limb array.
StructBase == U64(131072)

BitsBase == U64(196608)

\* bytes laid at byte index at.
Place(at, bytes) == [a \in at..(at + Len(bytes) - 1) |-> bytes[a - at + 1]]

\* The bytes of a sequence of words, in memory order.
RECURSIVE Flatten(_)
Flatten(ws) == IF ws = <<>> THEN <<>> ELSE ws[1] \o Flatten(Tail(ws))

\* ws followed by zero words up to n words.
PadWords(ws, n) == ws \o [i \in 1..(n - Len(ws)) |-> ZeroWord]

\* The non-zero bytes of f that lie below limit.
NonZeroBelow(f, limit) == [a \in {x \in DOMAIN f : x < limit /\ f[x] # 0} |-> f[a]]

\* Idle values of the variables a specification does not use.
Idle == [called |-> FALSE]

NoMemory == [regions |-> {}, data |-> <<>>]

\* A memory image.  The record under examination lies at StructBase in the
\* layout of the producing runtime: hidden {sign, pointer} at +0, decoy
\* {sign, pointer} at +12, key at +24, the two flag bytes at +28 and +29.
\* Further up the same region lies whatever else the heap holds: another
\* big-integer structure n at +112, a word nKey at +224 and two bytes at +228
\* and +229; every other byte is zero.  Only the first len bytes of the region
\* are mapped.  The limb array lies at BitsBase, in a window of
\* max_probe_length words of which the first bitsMapped bytes are mapped.
DecoySign == U32(1)

TargetKey == <<170, 170, 170, 170>>

StructImage(p) ==
    LET at == AddrIndex(StructBase)
    IN  Place(at, p.hSign \o p.hPtr)
        @@ Place(at + 12, DecoySign \o BitsBase)
        @@ Place(at + 24, TargetKey \o <<1, 1>>)
        @@ Place(at + 112, p.nSign \o p.nPtr)
        @@ Place(at + 224, p.nKey \o <<p.nActive, p.nInited>>)

Image(p) ==
    LET sb == AddrIndex(StructBase)
        bb == AddrIndex(BitsBase)
    IN  [regions |-> {<<sb, sb + p.len>>, <<bb, bb + p.bitsMapped>>},
         data    |-> NonZeroBelow(StructImage(p), sb + p.len)
                     @@ NonZeroBelow(Place(bb, Flatten(PadWords(p.limbs, max_probe_length))),
                                     bb + p.bitsMapped)]

\* Pointers the images store: valid and mapped, null, below and above the
\* valid range, valid but not mapped.
TooLow == U64(256)

TooHigh == <<0, 0, 0, 0, 0, 128, 0, 0>>

NotMapped == U64(262144)

\* What uninitialized storage may hold.
Garbage ==
    {[sign |-> ZeroWord, bits_ptr |-> NullPtr, bits_length |-> 0],
     [sign |-> <<204, 204, 204, 204>>,
      bits_ptr |-> <<204, 204, 204, 204, 204, 204, 204, 204>>,
      bits_length |-> 7]}

(***************************************************************************)
(* Specification SpecCipher: DecryptBigIntegerContents as a function       *)
(***************************************************************************)

\* The longest limb sequence the cipher is applied to.
MaxLimbs == 3

CipherSigns == {ZeroWord, U32(1), MinusOne, <<120, 86, 52, 18>>}

CipherLimbs == {ZeroWord, U32(1), U32(2), U32(3), <<170, 170, 170, 170>>}

CipherKeys == {ZeroWord, U32(255), <<85, 85, 85, 85>>, <<120, 86, 52, 18>>}

LimbSeqs == UNION {[1..n -> CipherLimbs] : n \in 0..MaxLimbs}

RawTuples ==
    {[sign |-> s, bits_ptr |-> p, bits_length |-> Len(d), bits_data |-> d] :
        s \in CipherSigns, p \in {NullPtr, BitsBase}, d \in LimbSeqs}

InitCipher ==
    /\ mem = NoMemory
    /\ cipher \in {[t |-> t, key |-> k, out |-> <<>>] : t \in RawTuples, k \in CipherKeys}
    /\ bigint = Idle
    /\ raw = Idle
    /\ record = Idle
    /\ decrypted = Idle
    /\ overlay = Idle
    /\ scan = Idle
    /\ stepwise = Idle
    /\ format = Idle
    /\ threads = Idle
    /\ logger = Idle
    /\ verbose = Idle
    /\ procmgr = Idle
    /\ parser = Idle

\* The caller decrypts the tuple, and then the result again, with the same key.
Decrypt ==
    /\ Len(cipher.out) < 2
    /\ cipher' = [cipher EXCEPT !.out =
                     Append(@, DecryptBigIntegerContents(
                                   IF @ = <<>> THEN cipher.t ELSE @[Len(@)],
                                   cipher.key))]
    /\ UNCHANGED <<mem, bigint, raw, record, decrypted, overlay, scan, stepwise, format, threads, logger, verbose, procmgr, parser>>

NextCipher == Decrypt

SpecCipher == InitCipher /\ [][NextCipher]_vars

\* C1: decrypting twice with the same key gives back the tuple: sign,
\* magnitude pointer, limb count and every limb.
C1_Involution ==
    Len(cipher.out) = 2 =>
        /\ cipher.out[2].sign = cipher.t.sign
        /\ cipher.out[2].bits_ptr = cipher.t.bits_ptr
        /\ cipher.out[2].bits_length = cipher.t.bits_length
        /\ cipher.out[2].bits_data = cipher.t.bits_data

\* A tuple of several limbs that the first decryption changed has been
\* decrypted twice.
C1_Witness ==
    /\ Len(cipher.out) = 2
    /\ Len(cipher.t.bits_data) > 1
    /\ cipher.out[1].bits_data # cipher.t.bits_data
    /\ cipher.out[1].sign # cipher.t.sign

\* C2: one decryption is the reference shuffle cipher: the sign XOR-ed with
\* the key; no limb: unchanged; one limb: XOR-ed; several limbs: first and
\* last swapped and XOR-ed, interior limbs, count and pointer unchanged.
C2_ReferenceCipher ==
    Len(cipher.out) >= 1 =>
        LET t == cipher.t
            k == cipher.key
            o == cipher.out[1]
            n == Len(t.bits_data)
        IN  /\ o.sign = Xor32(t.sign, k)
            /\ o.bits_ptr = t.bits_ptr
            /\ o.bits_length = t.bits_length
            /\ Len(o.bits_data) = n
            /\ n = 1 => o.bits_data[1] = Xor32(t.bits_data[1], k)
            /\ n > 1 => /\ o.bits_data[1] = Xor32(t.bits_data[n], k)
                        /\ o.bits_data[n] = Xor32(t.bits_data[1], k)
                        /\ \A i \in 2..(n - 1) : o.bits_data[i] = t.bits_data[i]

\* Limbs [1, 2, 3] under key 0xFF have become [0xFC, 0x02, 0xFE].
C2_Witness ==
    /\ Len(cipher.out) >= 1
    /\ cipher.key = U32(255)
    /\ cipher.t.bits_data = <<U32(1), U32(2), U32(3)>>
    /\ cipher.out[1].bits_data = <<U32(252), U32(2), U32(254)>>

(***************************************************************************)
(* Specification SpecBigInt: the two views of one big-integer structure    *)
(***************************************************************************)
BigIntImages ==
    {Image([hSign |-> s, hPtr |-> q, limbs |-> d, len |-> n, bitsMapped |-> b,
            nSign |-> ZeroWord, nPtr |-> NullPtr, nKey |-> ZeroWord,
            nActive |-> 0, nInited |-> 0]) :
        s \in {ZeroWord, U32(1), MinusOne, U32(5)},
        q \in {BitsBase, NullPtr, TooLow, TooHigh, NotMapped},
        d \in {<<>>, <<U32(5)>>, <<U32(1), U32(2), U32(3)>>, <<U32(5), ZeroWord, U32(7)>>,
               PadWords(<<>>, max_probe_length - 1) \o <<U32(9)>>},
        n \in {4, 24},
        b \in {64, 128}}

\* The addresses the caller passes: the hidden structure, the decoy
\* structure, an address below the valid range.
BigIntAddresses == {StructBase, AddrAdd(StructBase, 12), TooLow}

InitBigInt ==
    /\ mem \in BigIntImages
    /\ cipher = Idle
    /\ bigint = Idle
    /\ raw = Idle
    /\ record = Idle
    /\ decrypted = Idle
    /\ overlay = Idle
    /\ scan = Idle
    /\ stepwise = Idle
    /\ format = Idle
    /\ threads = Idle
    /\ logger = Idle
    /\ verbose = Idle
    /\ procmgr = Idle
    /\ parser = Idle

CallReadBigInteger(address) ==
    /\ bigint' = [called |-> TRUE, address |-> address, res |-> ReadBigInteger(mem, address)]
    /\ UNCHANGED <<mem, cipher, raw, record, decrypted, overlay, scan, stepwise, format, threads, logger, verbose, procmgr, parser>>

CallReadBigIntegerContents(address) ==
    /\ raw' = [called |-> TRUE, address |-> address,
               res |-> ReadBigIntegerContents(mem, address)]
    /\ UNCHANGED <<mem, cipher, bigint, record, decrypted, overlay, scan, stepwise, format, threads, logger, verbose, procmgr, parser>>

NextBigInt ==
    \/ \E address \in BigIntAddresses : CallReadBigInteger(address)
    \/ \E address \in BigIntAddresses : CallReadBigIntegerContents(address)

SpecBigInt == InitBigInt /\ [][NextBigInt]_vars

\* The sign words of a normalized value: -1, 0 and 1.
NormalSigns == {MinusOne, ZeroWord, U32(1)}

\* C6: every result ReadBigInteger returns is normalized: a zero sign comes
\* with no limbs, and a non-empty limb sequence ends in a non-zero limb.
C6_Normalization ==
    (bigint.called /\ bigint.res.ok) =>
        LET v == bigint.res.value
        IN  /\ v.sign = ZeroWord => v.bits_data = <<>>
            /\ v.bits_data # <<>> => v.bits_data[Len(v.bits_data)] # ZeroWord

\* C7: over the same memory the value view succeeds exactly when the raw
\* view succeeds and the sign word is -1, 0 or 1, and two successful views
\* carry the same sign, magnitude pointer, limb count and limbs.
C7_ViewsDifferBySignCheck ==
    (bigint.called /\ raw.called /\ bigint.address = raw.address) =>
        /\ bigint.res.ok <=> (raw.res.ok /\ raw.res.value.sign \in NormalSigns)
        /\ (bigint.res.ok /\ raw.res.ok) =>
               /\ bigint.res.value.sign = raw.res.value.sign
               /\ bigint.res.value.bits_ptr = raw.res.value.bits_ptr
               /\ bigint.res.value.bits_length = raw.res.value.bits_length
               /\ bigint.res.value.bits_data = raw.res.value.bits_data

\* What target memory holds for the structure the last ReadBigInteger call
\* was pointed at: the sign word, the magnitude pointer at + 4, and the probe
\* window at the pointer.
SignWord(address) == ReadInt32(mem, address)

PointerWord(address) == ReadUInt64(mem, AddrAdd(address, 4))

ProbeWindow(address) ==
    IF PointerWord(address).ok
    THEN ReadUInt32Array(mem, PointerWord(address).value, max_probe_length)
    ELSE None

\* C11: when the sign word is 0 and the magnitude pointer read at
\* address + 4 is null, ReadBigInteger succeeds with sign 0 and no limbs.
C11_NullPointerIsZero ==
    (/\ bigint.called
     /\ SignWord(bigint.address) = Some(ZeroWord)
     /\ PointerWord(bigint.address) = Some(NullPtr)) =>
        /\ bigint.res.ok
        /\ bigint.res.value.sign = ZeroWord
        /\ bigint.res.value.bits_data = <<>>

\* The structure at address has a non-zero sign word and a valid magnitude
\* pointer to a readable probe window whose words are all zero.
ZeroWindowNonZeroSign(address) ==
    /\ SignWord(address).ok
    /\ SignWord(address).value # ZeroWord
    /\ PointerWord(address).ok
    /\ IsValidPointer(PointerWord(address).value)
    /\ ProbeWindow(address).ok
    /\ \A i \in 1..max_probe_length : ProbeWindow(address).value[i] = ZeroWord

\* C12: over an all-zero probe window with a non-zero sign word both views
\* recover one limb, not none.
C12_LengthClamp ==
    /\ (bigint.called /\ ZeroWindowNonZeroSign(bigint.address)) =>
           /\ bigint.res.ok
           /\ bigint.res.value.bits_length = 1
           /\ bigint.res.value.bits_data = <<ZeroWord>>
    /\ (raw.called /\ ZeroWindowNonZeroSign(raw.address)) =>
           /\ raw.res.ok
           /\ raw.res.value.bits_length = 1
           /\ raw.res.value.bits_data = <<ZeroWord>>

\* Both views were read at one structure with sign 1 and an all-zero window,
\* and both recovered one limb.
C12_Witness ==
    /\ bigint.called
    /\ raw.called
    /\ bigint.address = raw.address
    /\ ZeroWindowNonZeroSign(bigint.address)
    /\ bigint.res.ok
    /\ bigint.res.value.bits_length = 1
    /\ raw.res.ok
    /\ raw.res.value.bits_length = 1

\* The limb count recovered from the probe window of the structure at
\* address: the position of the highest non-zero word, one when there is none
\* and the sign word is not zero.
RecoveredLength(address) ==
    LET window == ProbeWindow(address).value
        used   == {i \in 1..Len(window) : window[i] # ZeroWord}
    IN  IF used # {} THEN CHOOSE i \in used : \A j \in used : j <= i
        ELSE IF SignWord(address).value # ZeroWord THEN 1
        ELSE 0

WindowInUse(address) ==
    /\ SignWord(address).ok
    /\ PointerWord(address).ok
    /\ IsValidPointer(PointerWord(address).value)
    /\ ProbeWindow(address).ok
    /\ \E i \in 1..max_probe_length : ProbeWindow(address).value[i] # ZeroWord

\* The position, counted from 1, of the highest non-zero word of the probe
\* window at address: its index plus one.
HighestNonZero(address) ==
    LET window == ProbeWindow(address).value
    IN  CHOOSE n \in 1..max_probe_length :
            /\ window[n] # ZeroWord
            /\ \A k \in (n + 1)..max_probe_length : window[k] = ZeroWord

\* C21: when the probe window holds a non-zero limb, both views recover as
\* limb count the index of the highest non-zero limb plus one, a count
\* between 1 and max_probe_length.
C21_LengthRecovery ==
    /\ (bigint.called /\ WindowInUse(bigint.address)) =>
           /\ bigint.res.ok
           /\ bigint.res.value.bits_length = HighestNonZero(bigint.address)
           /\ bigint.res.value.bits_length \in 1..max_probe_length
    /\ (raw.called /\ WindowInUse(raw.address)) =>
           /\ raw.res.ok
           /\ raw.res.value.bits_length = HighestNonZero(raw.address)
           /\ raw.res.value.bits_length \in 1..max_probe_length

\* Both views were read over a window with a zero limb below its highest
\* non-zero limb, and both recovered three limbs.
C21_Witness ==
    /\ bigint.called
    /\ raw.called
    /\ bigint.address = raw.address
    /\ WindowInUse(bigint.address)
    /\ ProbeWindow(bigint.address).value[2] = ZeroWord
    /\ bigint.res.ok
    /\ bigint.res.value.bits_length = 3
    /\ raw.res.ok
    /\ raw.res.value.bits_length = 3

(***************************************************************************)
(* Specification SpecRecord: reading and decrypting an obscured record     *)
(***************************************************************************)
RecordImage(s, q, d, n, f, k, a) ==
    Image([hSign |-> s, hPtr |-> q, limbs |-> d, len |-> n, bitsMapped |-> 128,
           nSign |-> f[1], nPtr |-> f[2], nKey |-> k,
           nActive |-> a, nInited |-> 1 - a])

\* Images whose record region is mapped far enough for every field read,
\* and images whose region ends inside the record.
RecordImages ==
    {RecordImage(s, q, d, 230, f, k, a) :
        s \in {ZeroWord, U32(1), MinusOne},
        q \in {BitsBase, NullPtr, TooLow},
        d \in {<<>>, <<U32(5)>>, <<U32(1), U32(2), U32(3)>>},
        f \in {<<ZeroWord, NullPtr>>, <<U32(1), BitsBase>>},
        k \in {U32(255), <<120, 86, 52, 18>>},
        a \in {0, 1}}
    \cup
    {RecordImage(U32(1), BitsBase, <<U32(5)>>, n, f, U32(255), 1) :
        n \in {24, 124, 226, 228, 229},
        f \in {<<ZeroWord, NullPtr>>, <<U32(1), BitsBase>>}}

RecordAddresses == {StructBase, TooLow}

\* A default-initialized ObscuredBigIntegerData, as a caller that has read
\* nothing holds it: is_valid is false, the scalar fields hold g.
DefaultSerializable(g) ==
    [bigint_value |-> Uninitialized(g),
     raw_contents |-> [sign |-> g.sign, bits_ptr |-> g.bits_ptr,
                       bits_length |-> g.bits_length, bits_data |-> <<>>],
     is_valid     |-> FALSE]

DefaultRecord(g) ==
    [hidden_value       |-> DefaultSerializable(g),
     fake_value         |-> DefaultSerializable(g),
     current_crypto_key |-> g.sign,
     fake_value_active  |-> FALSE,
     inited             |-> FALSE,
     is_valid           |-> FALSE]

\* The records a caller can pass on: the one it has read, or an empty one.
Records ==
    (IF record.called /\ record.res.ok THEN {record.res.value} ELSE {})
    \cup {DefaultRecord(g) : g \in Garbage}

InitRecord ==
    /\ mem \in RecordImages
    /\ cipher = Idle
    /\ bigint = Idle
    /\ raw = Idle
    /\ record = Idle
    /\ decrypted = Idle
    /\ overlay = Idle
    /\ scan = Idle
    /\ stepwise = Idle
    /\ format = Idle
    /\ threads = Idle
    /\ logger = Idle
    /\ verbose = Idle
    /\ procmgr = Idle
    /\ parser = Idle

\* The caller reads one record, and formats or decrypts afterwards.
CallReadObscuredBigInteger(base_address, g) ==
    /\ ~record.called
    /\ ~decrypted.called
    /\ LET r == ReadObscuredBigInteger(mem, base_address, g)
       IN  record' = [called |-> TRUE, base |-> base_address,
                      res |-> r.res, reads |-> r.reads]
    /\ UNCHANGED <<mem, cipher, bigint, raw, decrypted, overlay, scan, stepwise, format, threads, logger, verbose, procmgr, parser>>

CallDecryptHiddenValue(obscured) ==
    /\ ~decrypted.called
    /\ decrypted' = [called |-> TRUE, op |-> "DecryptHiddenValue", input |-> obscured,
                     out |-> DecryptHiddenValue(obscured)]
    /\ UNCHANGED <<mem, cipher, bigint, raw, record, overlay, scan, stepwise, format, threads, logger, verbose, procmgr, parser>>

CallDecryptedValueToString(obscured) ==
    /\ ~decrypted.called
    /\ decrypted' = [called |-> TRUE, op |-> "DecryptedValueToString", input |-> obscured,
                     out |-> DecryptedValueToString(obscured)]
    /\ UNCHANGED <<mem, cipher, bigint, raw, record, overlay, scan, stepwise, format, threads, logger, verbose, procmgr, parser>>

CallDecryptedValueToHex(obscured) ==
    /\ ~decrypted.called
    /\ decrypted' = [called |-> TRUE, op |-> "DecryptedValueToHex", input |-> obscured,
                     out |-> DecryptedValueToHex(obscured)]
    /\ UNCHANGED <<mem, cipher, bigint, raw, record, overlay, scan, stepwise, format, threads, logger, verbose, procmgr, parser>>

NextRecord ==
    \/ \E base_address \in RecordAddresses, g \in Garbage :
           CallReadObscuredBigInteger(base_address, g)
    \/ \E obscured \in Records : CallDecryptHiddenValue(obscured)
    \/ \E obscured \in Records : CallDecryptedValueToString(obscured)
    \/ \E obscured \in Records : CallDecryptedValueToHex(obscured)

SpecRecord == InitRecord /\ [][NextRecord]_vars

\* The last call was DecryptHiddenValue on a record whose is_valid is set.
DecryptedValid ==
    /\ decrypted.called
    /\ decrypted.op = "DecryptHiddenValue"
    /\ decrypted.input.is_valid

\* The hidden raw tuple of the last input, decrypted under the input's key.
HiddenPlain ==
    DecryptBigIntegerContents(decrypted.input.hidden_value.raw_contents,
                              decrypted.input.current_crypto_key)

\* C3: for a valid record DecryptHiddenValue returns the decryption of the
\* hidden raw tuple under the record's key: the sign is the hidden raw sign
\* XOR the key and the limbs are the cipher's output on the hidden raw limbs.
C3_ReturnsDecryptedHidden ==
    DecryptedValid =>
        /\ decrypted.out.ok
        /\ decrypted.out.value.sign =
               Xor32(decrypted.input.hidden_value.raw_contents.sign,
                     decrypted.input.current_crypto_key)
        /\ decrypted.out.value.bits_data = HiddenPlain.bits_data

\* A sign-magnitude tuple in normalized form: the sign is -1, 0 or 1, a zero
\* sign has no limbs, and the most significant limb is not zero.
IsNormalized(t) ==
    /\ t.sign \in NormalSigns
    /\ t.bits_data # <<>> =>
           /\ t.sign # ZeroWord
           /\ t.bits_data[Len(t.bits_data)] # ZeroWord

\* C4: DecryptHiddenValue validates what it decrypted: when the decrypted
\* hidden tuple is not normalized (sign outside -1, 0, 1, or limbs not
\* trimmed) it returns failure.
C4_RevalidatesAfterDecrypt ==
    (DecryptedValid /\ ~IsNormalized(HiddenPlain)) => ~decrypted.out.ok

\* The operation of the last decrypt call, applied to another record.
ApplyDecryptOp(op, obscured) ==
    CASE op = "DecryptHiddenValue"     -> DecryptHiddenValue(obscured)
      [] op = "DecryptedValueToString" -> DecryptedValueToString(obscured)
      [] op = "DecryptedValueToHex"    -> DecryptedValueToHex(obscured)

\* A decoy unlike any the images hold: the value 7.
OtherDecoy ==
    [bigint_value |-> [sign |-> U32(1), bits_ptr |-> BitsBase, bits_length |-> 1,
                       bits_data |-> <<U32(7)>>, is_valid |-> TRUE],
     raw_contents |-> [sign |-> U32(1), bits_ptr |-> BitsBase, bits_length |-> 1,
                       bits_data |-> <<U32(7)>>],
     is_valid     |-> TRUE]

\* The records that differ from obscured in the decoy and its flag only.
DecoyVariants(obscured) ==
    {[obscured EXCEPT !.fake_value = f, !.fake_value_active = a] :
        f \in {obscured.fake_value, obscured.hidden_value, OtherDecoy},
        a \in BOOLEAN}

\* C5: the decoy never shows in a result: DecryptHiddenValue,
\* DecryptedValueToString and DecryptedValueToHex return the same for any
\* two records that differ only in fake_value and fake_value_active.
C5_DecoyNeverUsed ==
    decrypted.called =>
        \A other \in DecoyVariants(decrypted.input) :
            ApplyDecryptOp(decrypted.op, other) = decrypted.out

\* A record read from memory, with an active decoy that differs from the
\* hidden value, has been formatted to a number.
C5_Witness ==
    /\ decrypted.called
    /\ decrypted.op = "DecryptedValueToString"
    /\ decrypted.input.is_valid
    /\ decrypted.input.fake_value_active
    /\ decrypted.input.fake_value.bigint_value.is_valid
    /\ decrypted.input.fake_value.bigint_value # decrypted.input.hidden_value.bigint_value
    /\ decrypted.out = <<"-", "5">>

\* The byte span of one big-integer structure in target memory: the 4-byte
\* sign word and the 8-byte magnitude pointer.
BigIntegerSpan == 4 + 8

\* The offsets of hidden, decoy, key, decoy_active and initialized in the
\* layout of the producing runtime.
TargetOffsets ==
    <<0, BigIntegerSpan, 2 * BigIntegerSpan, 2 * BigIntegerSpan + 4, 2 * BigIntegerSpan + 5>>

\* C9: ReadObscuredBigInteger(base) reads hidden at base, the decoy at
\* base + S, the key at base + 2S and the flags at base + 2S + 4 and
\* base + 2S + 5, S being the span of one big-integer structure.
C9_ReadsTargetLayout ==
    record.called =>
        \A i \in 1..Len(record.reads) :
            record.reads[i].address = AddrAdd(record.base, TargetOffsets[i])

\* C10: no partial record: a failed field read fails the call, and a
\* returned record is valid and holds what five successful reads returned.
C10_NoPartialRecord ==
    record.called =>
        LET rs == record.reads
        IN  /\ (\E i \in 1..Len(rs) : ~rs[i].ok) => ~record.res.ok
            /\ record.res.ok =>
                   LET v == record.res.value
                   IN  /\ Len(rs) = 5
                       /\ v.is_valid
                       /\ v.hidden_value.is_valid
                       /\ v.fake_value.is_valid
                       /\ Some(v.hidden_value.raw_contents) =
                              ReadBigIntegerContents(mem, rs[1].address)
                       /\ Some(v.fake_value.raw_contents) =
                              ReadBigIntegerContents(mem, rs[2].address)
                       /\ Some(v.current_crypto_key) = ReadUInt32(mem, rs[3].address)
                       /\ Some(v.fake_value_active) = ReadBool(mem, rs[4].address)
                       /\ Some(v.inited) = ReadBool(mem, rs[5].address)

\* The hidden and the decoy value were read, the key could not be, and the
\* call returned failure.
C10_Witness ==
    /\ record.called
    /\ Len(record.reads) = 3
    /\ record.reads[1].ok
    /\ record.reads[2].ok
    /\ ~record.reads[3].ok
    /\ ~record.res.ok

\* The fields of the record in the order of their declaration.
FieldOrder ==
    <<"hiddenValue", "fakeValue", "currentCryptoKey", "fakeValueActive", "inited">>

\* C23: ReadObscuredBigInteger reads the fields in the order hidden value,
\* decoy value, key, decoy-active flag, initialized flag, each at most once,
\* and stops at the first read that fails: no field is read after a failed
\* read, and a call that stopped short of the last field stopped on a
\* failure.
C23_FieldOrderFailFast ==
    record.called =>
        LET rs == record.reads
        IN  /\ Len(rs) <= Len(FieldOrder)
            /\ \A i \in 1..Len(rs) : rs[i].field = FieldOrder[i]
            /\ \A i \in 1..Len(rs) : ~rs[i].ok => i = Len(rs)
            /\ (Len(rs) \in 1..(Len(FieldOrder) - 1)) => ~rs[Len(rs)].ok
            /\ (Len(rs) = 0) => ~Obscured_IsValidPointer(record.base)

\* The hidden value was read, the decoy value could not be, and neither
\* the key nor a flag was read afterwards.
C23_Witness ==
    /\ record.called
    /\ Len(record.reads) = 2
    /\ record.reads[1].ok
    /\ ~record.reads[2].ok
    /\ ~record.res.ok

\* C15: whatever ReadBigInteger, ReadObscuredBigInteger or
\* DecryptHiddenValue returns instead of failure has its is_valid flag set.
C15_ResultsFullyValid ==
    /\ (bigint.called /\ bigint.res.ok) => bigint.res.value.is_valid
    /\ (record.called /\ record.res.ok) => record.res.value.is_valid
    /\ (decrypted.called /\ decrypted.op = "DecryptHiddenValue" /\ decrypted.out.ok) =>
           decrypted.out.value.is_valid

(***************************************************************************)
(* Specification SpecOverlay: ReadSerializableBigInteger view by view,     *)
(* with the target process running between the two views                   *)
(***************************************************************************)
OverlayImages ==
    {Image([hSign |-> s, hPtr |-> q, limbs |-> d, len |-> 24, bitsMapped |-> 128,
            nSign |-> ZeroWord, nPtr |-> NullPtr, nKey |-> ZeroWord,
            nActive |-> 0, nInited |-> 0]) :
        s \in {ZeroWord, U32(1), U32(5)},
        q \in {BitsBase, NullPtr, TooLow},
        d \in {<<>>, <<U32(5)>>, <<U32(1), U32(2), U32(3)>>}}

InitOverlay ==
    /\ mem \in OverlayImages
    /\ cipher = Idle
    /\ bigint = Idle
    /\ raw = Idle
    /\ record = Idle
    /\ decrypted = Idle
    /\ overlay = Idle
    /\ scan = Idle
    /\ stepwise = Idle
    /\ format = Idle
    /\ threads = Idle
    /\ logger = Idle
    /\ verbose = Idle
    /\ procmgr = Idle
    /\ parser = Idle

\* ReadSerializableBigInteger up to the end of the BigInteger view:
\* value_ok is whether bigint_data held a value.
OverlayValueView(address, g) ==
    /\ ~overlay.called
    /\ overlay' = [called       |-> TRUE,
                   pc           |-> "raw",
                   address      |-> address,
                   value_ok     |-> ReadBigIntegerVerbose(mem, address).ok,
                   bigint_value |-> Serializable_ValueView(mem, address, g),
                   torn         |-> FALSE]
    /\ UNCHANGED <<mem, cipher, bigint, raw, record, decrypted, scan, stepwise, format, threads, logger, verbose, procmgr, parser>>

\* What the target process may do to its memory meanwhile: store a pointer
\* over the structure's pointer field, free the limb array, clear the sign,
\* or zero the limb array.
TargetWrites(m) ==
    LET sb == AddrIndex(StructBase)
        bb == AddrIndex(BitsBase)
    IN  { [m EXCEPT !.data = Place(sb + 4, TooLow)
                              @@ [a \in (DOMAIN m.data) \ ((sb + 4)..(sb + 11)) |-> m.data[a]]],
          [regions |-> {r \in m.regions : r[1] # bb},
           data    |-> [a \in {x \in DOMAIN m.data : x < bb} |-> m.data[a]]],
          [m EXCEPT !.data = [a \in (DOMAIN m.data) \ (sb..(sb + 3)) |-> m.data[a]]],
          [m EXCEPT !.data = [a \in {x \in DOMAIN m.data : x < bb} |-> m.data[a]]] }

\* The target process writes once while the reader is between its views.
TargetWrite ==
    /\ overlay.called
    /\ overlay.pc = "raw"
    /\ ~overlay.torn
    /\ \E m \in TargetWrites(mem) : m # mem /\ mem' = m
    /\ overlay' = [overlay EXCEPT !.torn = TRUE]
    /\ UNCHANGED <<cipher, bigint, raw, record, decrypted, scan, stepwise, format, threads, logger, verbose, procmgr, parser>>

\* ReadSerializableBigInteger from the raw contents view to its return.
OverlayRawView ==
    /\ overlay.called
    /\ overlay.pc = "raw"
    /\ overlay' = [pc           |-> "done",
                   called       |-> TRUE,
                   address      |-> overlay.address,
                   value_ok     |-> overlay.value_ok,
                   bigint_value |-> overlay.bigint_value,
                   torn         |-> overlay.torn,
                   res          |-> Serializable_RawView(mem, overlay.address,
                                                         overlay.bigint_value)]
    /\ UNCHANGED <<mem, cipher, bigint, raw, record, decrypted, scan, stepwise, format, threads, logger, verbose, procmgr, parser>>

NextOverlay ==
    \/ \E g \in Garbage : OverlayValueView(StructBase, g)
    \/ TargetWrite
    \/ OverlayRawView

SpecOverlay == InitOverlay /\ [][NextOverlay]_vars

\* C8: neither view's failure cuts the other short: when the value view
\* failed the raw view is still read and returned, and when the raw view
\* failed a value view that was read is still returned to the caller.
C8_ViewsIndependent ==
    (overlay.called /\ overlay.pc = "done") =>
        LET raw_view == ReadBigIntegerContents(mem, overlay.address)
        IN  /\ (~overlay.value_ok /\ raw_view.ok) =>
                   /\ overlay.res.ok
                   /\ overlay.res.value.raw_contents = raw_view.value
            /\ (overlay.value_ok /\ ~raw_view.ok) =>
                   /\ overlay.res.ok
                   /\ overlay.res.value.bigint_value = overlay.bigint_value

(***************************************************************************)
(* Specification SpecStepwise: ReadBigInteger memory read by memory read,  *)
(* with the target process running between the reads                       *)
(***************************************************************************)

\* How often the target process writes during one call.
MaxTargetWrites == 1

StepImages ==
    {Image([hSign |-> s, hPtr |-> q, limbs |-> d, len |-> n, bitsMapped |-> b,
            nSign |-> ZeroWord, nPtr |-> NullPtr, nKey |-> ZeroWord,
            nActive |-> 0, nInited |-> 0]) :
        s \in {ZeroWord, U32(1)},
        q \in {BitsBase, NullPtr, TooHigh, NotMapped},
        d \in {<<>>, <<U32(5)>>, <<U32(1), U32(2), U32(3)>>},
        n \in {4, 24},
        b \in {64, 128}}

StepAddresses == {StructBase, TooLow}

InitStepwise ==
    /\ mem \in StepImages
    /\ cipher = Idle
    /\ bigint = Idle
    /\ raw = Idle
    /\ record = Idle
    /\ decrypted = Idle
    /\ overlay = Idle
    /\ scan = Idle
    /\ stepwise = Idle
    /\ format = Idle
    /\ threads = Idle
    /\ logger = Idle
    /\ verbose = Idle
    /\ procmgr = Idle
    /\ parser = Idle

\* One memory read a call has issued: what it was for, where, how many
\* elements, and whether it succeeded.
MemoryRead(what, address, count, ok) ==
    [what |-> what, address |-> address, count |-> count, ok |-> ok]

\* ReadBigInteger up to the check of base_address.
StepBegin(base_address) ==
    /\ ~stepwise.called
    /\ stepwise' = [called  |-> TRUE,
                    pc      |-> IF IsValidPointer(base_address) THEN "sign" ELSE "done",
                    address |-> base_address,
                    sign    |-> ZeroWord,
                    bits_ptr |-> NullPtr,
                    bits_length |-> 0,
                    reads   |-> <<>>,
                    writes  |-> 0,
                    res     |-> None]
    /\ UNCHANGED <<mem, cipher, bigint, raw, record, decrypted, overlay, scan, format, threads, logger, verbose, procmgr, parser>>

\* The read of the sign field.
StepReadSign ==
    /\ stepwise.called
    /\ stepwise.pc = "sign"
    /\ LET sign_opt == ReadInt32(mem, stepwise.address)
           reads == Append(stepwise.reads,
                           MemoryRead("sign", stepwise.address, 1, sign_opt.ok))
       IN  stepwise' =
               IF ~sign_opt.ok
               THEN [stepwise EXCEPT !.pc = "done", !.reads = reads]
               ELSE [stepwise EXCEPT !.pc = "pointer", !.reads = reads,
                                     !.sign = sign_opt.value]
    /\ UNCHANGED <<mem, cipher, bigint, raw, record, decrypted, overlay, scan, format, threads, logger, verbose, procmgr, parser>>

\* The read of the bits pointer and its validation.
StepReadPointer ==
    /\ stepwise.called
    /\ stepwise.pc = "pointer"
    /\ LET bits_ptr_address == AddrAdd(stepwise.address, 4)
           bits_ptr_opt == ReadUInt64(mem, bits_ptr_address)
           reads == Append(stepwise.reads,
                           MemoryRead("bits_ptr", bits_ptr_address, 1, bits_ptr_opt.ok))
       IN  stepwise' =
               IF ~bits_ptr_opt.ok
               THEN [stepwise EXCEPT !.pc = "done", !.reads = reads]
               ELSE IF ~IsValidPointer(bits_ptr_opt.value)
               THEN [stepwise EXCEPT !.pc = "done", !.reads = reads,
                                     !.bits_ptr = bits_ptr_opt.value]
               ELSE [stepwise EXCEPT !.pc = "probe", !.reads = reads,
                                     !.bits_ptr = bits_ptr_opt.value]
    /\ UNCHANGED <<mem, cipher, bigint, raw, record, decrypted, overlay, scan, format, threads, logger, verbose, procmgr, parser>>

\* The probe of max_probe_length elements, the length derived from it and
\* its validation; a length of 0 returns without a further read.
StepProbe ==
    /\ stepwise.called
    /\ stepwise.pc = "probe"
    /\ LET probe_array == ReadUInt32Array(mem, stepwise.bits_ptr, max_probe_length)
           reads == Append(stepwise.reads,
                           MemoryRead("probe", stepwise.bits_ptr, max_probe_length,
                                      probe_array.ok))
       IN  stepwise' =
               IF ~probe_array.ok
               THEN [stepwise EXCEPT !.pc = "done", !.reads = reads]
               ELSE LET actual_length == ActualLength(probe_array.value, stepwise.sign)
                    IN  IF ~IsValidBitsLength(actual_length)
                        THEN [stepwise EXCEPT !.pc = "done", !.reads = reads,
                                              !.bits_length = actual_length]
                        ELSE IF actual_length > 0
                        THEN [stepwise EXCEPT !.pc = "reread", !.reads = reads,
                                              !.bits_length = actual_length]
                        ELSE [stepwise EXCEPT
                                !.pc = "done", !.reads = reads,
                                !.bits_length = actual_length,
                                !.res = Some([sign        |-> stepwise.sign,
                                              bits_ptr    |-> stepwise.bits_ptr,
                                              bits_length |-> actual_length,
                                              bits_data   |-> <<>>,
                                              is_valid    |-> TRUE])]
    /\ UNCHANGED <<mem, cipher, bigint, raw, record, decrypted, overlay, scan, format, threads, logger, verbose, procmgr, parser>>

\* A plausible slip: when the second read fails the limbs are taken to be
\* zero and the value is returned all the same.
StepReread_KeepsGoing ==
    /\ stepwise.called
    /\ stepwise.pc = "reread"
    /\ LET bits_data_opt == ReadUInt32Array(mem, stepwise.bits_ptr, stepwise.bits_length)
           reads == Append(stepwise.reads,
                           MemoryRead("bits_data", stepwise.bits_ptr, stepwise.bits_length,
                                      bits_data_opt.ok))
       IN  stepwise' =
               [stepwise EXCEPT
                  !.pc = "done", !.reads = reads,
                  !.res = Some([sign        |-> stepwise.sign,
                                bits_ptr    |-> stepwise.bits_ptr,
                                bits_length |-> stepwise.bits_length,
                                bits_data   |-> IF bits_data_opt.ok
                                                THEN bits_data_opt.value
                                                ELSE [i \in 1..stepwise.bits_length |-> ZeroWord],
                                is_valid    |-> TRUE])]
    /\ UNCHANGED <<mem, cipher, bigint, raw, record, decrypted, overlay, scan, format, threads, logger, verbose, procmgr, parser>>

\* A plausible slip: the second read takes the whole probe window again and
\* the limbs are cut from it.
StepReread_ReadsWindow ==
    /\ stepwise.called
    /\ stepwise.pc = "reread"
    /\ LET bits_data_opt == ReadUInt32Array(mem, stepwise.bits_ptr, max_probe_length)
           reads == Append(stepwise.reads,
                           MemoryRead("bits_data", stepwise.bits_ptr, max_probe_length,
                                      bits_data_opt.ok))
       IN  stepwise' =
               IF ~bits_data_opt.ok
               THEN [stepwise EXCEPT !.pc = "done", !.reads = reads]
               ELSE [stepwise EXCEPT
                       !.pc = "done", !.reads = reads,
                       !.res = Some([sign        |-> stepwise.sign,
                                     bits_ptr    |-> stepwise.bits_ptr,
                                     bits_length |-> stepwise.bits_length,
                                     bits_data   |-> SubSeq(bits_data_opt.value, 1,
                                                            stepwise.bits_length),
                                     is_valid    |-> TRUE])]
    /\ UNCHANGED <<mem, cipher, bigint, raw, record, decrypted, overlay, scan, format, threads, logger, verbose, procmgr, parser>>

\* A plausible guard against torn reads: after the limbs are read the probe
\* window is read once more, and the call fails if the length it yields is
\* no longer the one recovered before.
StepReread_ChecksAgain ==
    /\ stepwise.called
    /\ stepwise.pc = "reread"
    /\ LET bits_data_opt == ReadUInt32Array(mem, stepwise.bits_ptr, stepwise.bits_length)
           reads == Append(stepwise.reads,
                           MemoryRead("bits_data", stepwise.bits_ptr, stepwise.bits_length,
                                      bits_data_opt.ok))
           again == ReadUInt32Array(mem, stepwise.bits_ptr, max_probe_length)
           reads_again == Append(reads,
                                 MemoryRead("probe", stepwise.bits_ptr, max_probe_length,
                                            again.ok))
       IN  stepwise' =
               IF ~bits_data_opt.ok
               THEN [stepwise EXCEPT !.pc = "done", !.reads = reads]
               ELSE IF \/ ~again.ok
                       \/ ActualLength(again.value, stepwise.sign) # stepwise.bits_length
               THEN [stepwise EXCEPT !.pc = "done", !.reads = reads_again]
               ELSE [stepwise EXCEPT
                       !.pc = "done", !.reads = reads_again,
                       !.res = Some([sign        |-> stepwise.sign,
                                     bits_ptr    |-> stepwise.bits_ptr,
                                     bits_length |-> stepwise.bits_length,
                                     bits_data   |-> bits_data_opt.value,
                                     is_valid    |-> TRUE])]
    /\ UNCHANGED <<mem, cipher, bigint, raw, record, decrypted, overlay, scan, format, threads, logger, verbose, procmgr, parser>>

\* The read of the bits_length elements found, and the return.
StepReread ==
    /\ stepwise.called
    /\ stepwise.pc = "reread"
    /\ LET bits_data_opt == ReadUInt32Array(mem, stepwise.bits_ptr, stepwise.bits_length)
           reads == Append(stepwise.reads,
                           MemoryRead("bits_data", stepwise.bits_ptr, stepwise.bits_length,
                                      bits_data_opt.ok))
       IN  stepwise' =
               IF ~bits_data_opt.ok
               THEN [stepwise EXCEPT !.pc = "done", !.reads = reads]
               ELSE [stepwise EXCEPT
                       !.pc = "done", !.reads = reads,
                       !.res = Some([sign        |-> stepwise.sign,
                                     bits_ptr    |-> stepwise.bits_ptr,
                                     bits_length |-> stepwise.bits_length,
                                     bits_data   |-> bits_data_opt.value,
                                     is_valid    |-> TRUE])]
    /\ UNCHANGED <<mem, cipher, bigint, raw, record, decrypted, overlay, scan, format, threads, logger, verbose, procmgr, parser>>

\* The target process writes to its memory while the call is under way.
StepTargetWrite ==
    /\ stepwise.called
    /\ stepwise.pc # "done"
    /\ stepwise.writes < MaxTargetWrites
    /\ \E m \in TargetWrites(mem) : m # mem /\ mem' = m
    /\ stepwise' = [stepwise EXCEPT !.writes = @ + 1]
    /\ UNCHANGED <<cipher, bigint, raw, record, decrypted, overlay, scan, format, threads, logger, verbose, procmgr, parser>>

NextStepwise ==
    \/ \E base_address \in StepAddresses : StepBegin(base_address)
    \/ StepReadSign
    \/ StepReadPointer
    \/ StepProbe
    \/ StepReread
    \/ StepTargetWrite

SpecStepwise == InitStepwise /\ [][NextStepwise]_vars

\* With no write in between, the reads taken one by one return what
\* ReadBigInteger returns over the same memory.
StepwiseIsReadBigInteger ==
    (stepwise.called /\ stepwise.pc = "done" /\ stepwise.writes = 0) =>
        stepwise.res = ReadBigInteger(mem, stepwise.address)

\* A call has returned after a memory read that failed.
SomeReadFailed ==
    \E i \in 1..Len(stepwise.reads) : ~stepwise.reads[i].ok

\* A call has read a magnitude pointer that is not null and lies outside
\* [0x10000, 0x7FFFFFFFFFFF].
PointerOutOfRange ==
    /\ \E i \in 1..Len(stepwise.reads) :
           stepwise.reads[i].what = "bits_ptr" /\ stepwise.reads[i].ok
    /\ stepwise.bits_ptr # NullPtr
    /\ ~(/\ LessEq(U64(65536), stepwise.bits_ptr)
         /\ LessEq(stepwise.bits_ptr, <<255, 255, 255, 255, 255, 127, 0, 0>>))

\* C14: ReadBigInteger returns failure whenever one of its memory reads
\* (sign word, magnitude pointer, probe window, limb re-read) failed or the
\* non-null magnitude pointer it read lies outside [0x10000, 0x7FFFFFFFFFFF].
C14_FailureOnReadFailure ==
    (stepwise.called /\ stepwise.pc = "done" /\ (SomeReadFailed \/ PointerOutOfRange)) =>
        ~stepwise.res.ok

\* The probe succeeded, the target freed the limb array, the re-read failed
\* and the call returned failure.
C14_Witness ==
    /\ stepwise.called
    /\ stepwise.pc = "done"
    /\ Len(stepwise.reads) = 4
    /\ stepwise.reads[3].ok
    /\ ~stepwise.reads[4].ok
    /\ ~stepwise.res.ok

\* The first n 32-bit words of target memory at address, byte by byte.
WordsAt(m, address, n) ==
    [i \in 1..n |->
        [k \in 1..4 |-> ByteAt(m, AddrIndex(address) + 4 * (i - 1) + (k - 1))]]

\* The reads a returned call issued for the limbs themselves.
LimbReads ==
    {i \in 1..Len(stepwise.reads) : stepwise.reads[i].what = "bits_data"}

\* C22: over memory that did not change, a successful ReadBigInteger returns
\* as limbs the first bits_length words at the pointer, taken by one second
\* read of exactly bits_length elements; bits_data has bits_length elements;
\* a length of 0 issues no second read and returns no limbs.
C22_LimbsAreFirstWords ==
    (stepwise.called /\ stepwise.pc = "done" /\ stepwise.writes = 0
        /\ stepwise.res.ok) =>
        LET value == stepwise.res.value
        IN  /\ Len(value.bits_data) = value.bits_length
            /\ value.bits_data = WordsAt(mem, value.bits_ptr, value.bits_length)
            /\ value.bits_length > 0 =>
                   /\ Cardinality(LimbReads) = 1
                   /\ \A i \in LimbReads :
                          /\ i = Len(stepwise.reads)
                          /\ stepwise.reads[i].address = value.bits_ptr
                          /\ stepwise.reads[i].count = value.bits_length
                          /\ stepwise.reads[i].ok
            /\ value.bits_length = 0 =>
                   /\ LimbReads = {}
                   /\ value.bits_data = <<>>

\* A call over unchanged memory returned three limbs from a second read of
\* three elements.
C22_Witness ==
    /\ stepwise.called
    /\ stepwise.pc = "done"
    /\ stepwise.writes = 0
    /\ stepwise.res.ok
    /\ stepwise.res.value.bits_length = 3
    /\ Len(stepwise.reads) = 4
    /\ stepwise.reads[4].count = 3
    /\ stepwise.res.value.bits_data = WordsAt(mem, BitsBase, 3)

\* A call over unchanged memory recovered length 0 and returned after the
\* probe, with no limbs.
C22_WitnessEmpty ==
    /\ stepwise.called
    /\ stepwise.pc = "done"
    /\ stepwise.writes = 0
    /\ stepwise.res.ok
    /\ stepwise.res.value.bits_length = 0
    /\ Len(stepwise.reads) = 3

\* The kinds of memory read of one call, in the order the code issues them.
ReadOrder == <<"sign", "bits_ptr", "probe", "bits_data">>

\* C24: a ReadBigInteger call during which the target writes to its memory
\* issues each of its reads once and in order (sign, pointer, one probe of
\* max_probe_length elements, one read of bits_length elements), none of
\* them twice, and when every read it issued succeeded on a valid pointer
\* it returns a valid result put together from what each read saw: the sign
\* and the pointer from the first two reads, the length from the probe, and
\* the limbs as the last read found them.
C24_TornReadsReturned ==
    (stepwise.called /\ stepwise.pc = "done") =>
        LET rs == stepwise.reads
        IN  /\ Len(rs) <= Len(ReadOrder)
            /\ \A i \in 1..Len(rs) : rs[i].what = ReadOrder[i]
            /\ (Len(rs) >= 3) => rs[3].count = max_probe_length
            /\ (Len(rs) = 4) => rs[4].count = stepwise.bits_length
            /\ (/\ Len(rs) >= 3
                /\ \A i \in 1..Len(rs) : rs[i].ok
                /\ IsValidBitsLength(stepwise.bits_length)) =>
                   /\ stepwise.res.ok
                   /\ stepwise.res.value.is_valid
                   /\ stepwise.res.value.sign = stepwise.sign
                   /\ stepwise.res.value.bits_ptr = stepwise.bits_ptr
                   /\ stepwise.res.value.bits_length = stepwise.bits_length
                   /\ (Len(rs) = 4) <=> (stepwise.bits_length > 0)
                   /\ stepwise.res.value.bits_data =
                          WordsAt(mem, stepwise.bits_ptr, stepwise.bits_length)

\* The target zeroed the limb array between the probe and the second read:
\* the call returned as valid a value of three limbs that are all zero,
\* which no single state of the target's memory holds.
C24_Witness ==
    /\ stepwise.called
    /\ stepwise.pc = "done"
    /\ stepwise.writes = 1
    /\ stepwise.res.ok
    /\ stepwise.res.value.is_valid
    /\ stepwise.res.value.bits_length = 3
    /\ stepwise.res.value.bits_data = <<ZeroWord, ZeroWord, ZeroWord>>
    /\ stepwise.res # ReadBigInteger(mem, stepwise.address)

(***************************************************************************)
(* Specification SpecScan: SetScanRegions and ScanForPattern               *)
(***************************************************************************)

\* The longest list of scan regions configured.
MaxRegions == 2

\* A target whose memory holds bytesA at StructBase and bytesB at BitsBase.
ScanImage(bytesA, bytesB) ==
    LET sb == AddrIndex(StructBase)
        bb == AddrIndex(BitsBase)
    IN  [regions |-> {<<sb, sb + Len(bytesA)>>, <<bb, bb + Len(bytesB)>>},
         data    |-> NonZeroBelow(Place(sb, bytesA), sb + Len(bytesA))
                     @@ NonZeroBelow(Place(bb, bytesB), bb + Len(bytesB))]

DEADBEEF == <<222, 173, 190, 239>>

\* Targets: one with the short pattern at offsets 0 and 8 and, off the
\* stride, at 2 and 5; one with DE AD BE EF at offset 0x40 of a 72-byte
\* region and nowhere else; one with DE AD BE EF at offset 6 only.
ScanImages ==
    {ScanImage(<<1, 2, 1, 2, 1, 1, 2, 0, 1, 2, 3, 4>>, <<1, 2, 0, 0, 3, 1, 2, 0>>),
     ScanImage([i \in 1..64 |-> 0] \o DEADBEEF \o <<0, 0, 0, 0>>, <<1, 2, 9, 9, 1, 0, 0, 0>>),
     ScanImage(<<0, 0, 0, 0, 0, 0>> \o DEADBEEF \o <<0, 0>>, DEADBEEF \o DEADBEEF)}

MemoryRegion(base_address, size) == [base_address |-> base_address, size |-> size]

\* Scan regions a caller configures: the two mapped areas, whole or in
\* part or beyond what is mapped, an area that is not mapped, and regions
\* IsValidScanRegion rejects.
ScanRegions ==
    {MemoryRegion(StructBase, 12), MemoryRegion(StructBase, 72),
     MemoryRegion(BitsBase, 8), MemoryRegion(BitsBase, 4),
     MemoryRegion(NotMapped, 8), MemoryRegion(StructBase, 0), MemoryRegion(NullPtr, 8)}

RegionLists == UNION {[1..n -> ScanRegions] : n \in 0..MaxRegions}

\* Pattern and mask pairs: no mask, masks of the pattern's length with and
\* without don't-care positions, a mask shorter than its pattern, and the
\* empty pattern.
Patterns ==
    {<< <<>>, <<>> >>,
     << <<1, 2>>, <<>> >>,
     << <<1, 2>>, <<1, 1>> >>,
     << <<1, 2>>, <<0, 1>> >>,
     << <<1, 2>>, <<1>> >>,
     << DEADBEEF, <<>> >>,
     << DEADBEEF, <<1, 0, 0, 1>> >>,
     << <<1, 2, 7, 7, 1>>, <<>> >>,
     << <<1, 2, 7, 7, 1>>, <<1, 1, 0, 0, 1>> >>}

InitScan ==
    /\ mem \in ScanImages
    /\ cipher = Idle
    /\ bigint = Idle
    /\ raw = Idle
    /\ record = Idle
    /\ decrypted = Idle
    /\ overlay = Idle
    /\ scan = [called |-> FALSE, scan_regions_ |-> <<>>]
    /\ stepwise = Idle
    /\ format = Idle
    /\ threads = Idle
    /\ logger = Idle
    /\ verbose = Idle
    /\ procmgr = Idle
    /\ parser = Idle

\* MemoryScanner::SetScanRegions.
SetScanRegions(regions) ==
    /\ ~scan.called
    /\ scan.scan_regions_ = <<>>
    /\ scan' = [scan EXCEPT !.scan_regions_ = regions]
    /\ UNCHANGED <<mem, cipher, bigint, raw, record, decrypted, overlay, stepwise, format, threads, logger, verbose, procmgr, parser>>

\* A call of MemoryScanner::ScanForPattern(pattern, mask).
CallScanForPattern(pattern, mask, ub) ==
    /\ ~scan.called
    /\ scan' = [called        |-> TRUE,
                scan_regions_ |-> scan.scan_regions_,
                pattern       |-> pattern,
                mask          |-> mask,
                ub            |-> ub,
                res           |-> ScanForPattern(mem, scan.scan_regions_, pattern, mask, ub)]
    /\ UNCHANGED <<mem, cipher, bigint, raw, record, decrypted, overlay, stepwise, format, threads, logger, verbose, procmgr, parser>>

NextScan ==
    \/ \E regions \in RegionLists : SetScanRegions(regions)
    \/ \E p \in Patterns, ub \in UndefinedOutcomes : CallScanForPattern(p[1], p[2], ub)

SpecScan == InitScan /\ [][NextScan]_vars

\* The scan's read of the whole region succeeds.
ReadSucceeds(region) == ReadMemory(mem, region.base_address, region.size).ok

\* A region the scan looks at: non-empty, not at address 0, and readable.
Scanned(region) ==
    /\ region.size > 0
    /\ region.base_address # NullPtr
    /\ ReadSucceeds(region)

\* The byte of target memory at offset k of region.
TargetByte(region, k) == ByteAt(mem, AddrIndex(region.base_address) + k)

\* The target's bytes at offset i of region equal pattern wherever mask
\* does not mark don't-care (an empty mask marks nothing).
WindowMatches(region, i, pattern, mask) ==
    \A j \in 1..Len(pattern) :
        (mask = <<>> \/ mask[j] # 0) => TargetByte(region, i + j - 1) = pattern[j]

\* The mask of the last scan is absent or as long as its pattern.
WellFormedMask == scan.mask = <<>> \/ Len(scan.mask) = Len(scan.pattern)

\* No region the last scan looks at is shorter than the pattern.
PatternFits ==
    \A k \in 1..Len(scan.scan_regions_) :
        Scanned(scan.scan_regions_[k]) => Len(scan.pattern) <= scan.scan_regions_[k].size

Reported(address) == \E n \in 1..Len(scan.res.results) : scan.res.results[n] = address

\* C16: with a mask as long as the pattern, every 4-aligned offset whose
\* window equals the pattern at the positions the mask cares about is
\* reported, whatever the bytes at the don't-care positions.
C16_MaskSemantics ==
    (/\ scan.called
     /\ scan.pattern # <<>>
     /\ scan.mask # <<>>
     /\ Len(scan.mask) = Len(scan.pattern)
     /\ PatternFits) =>
        \A k \in 1..Len(scan.scan_regions_) :
            LET region == scan.scan_regions_[k]
            IN  Scanned(region) =>
                    \A i \in 0..(region.size - Len(scan.pattern)) :
                        (/\ i % 4 = 0
                         /\ \A j \in 1..Len(scan.pattern) :
                                scan.mask[j] # 0 =>
                                    TargetByte(region, i + j - 1) = scan.pattern[j]) =>
                            Reported(AddrAdd(region.base_address, i))

\* A reported window differs from the pattern at a don't-care position.
C16_Witness ==
    /\ scan.called
    /\ scan.mask # <<>>
    /\ Len(scan.mask) = Len(scan.pattern)
    /\ \E k \in 1..Len(scan.scan_regions_) :
           LET region == scan.scan_regions_[k]
           IN  /\ Scanned(region)
               /\ Len(scan.pattern) <= region.size
               /\ \E i \in 0..(region.size - Len(scan.pattern)) :
                      /\ Reported(AddrAdd(region.base_address, i))
                      /\ \E j \in 1..Len(scan.pattern) :
                             /\ scan.mask[j] = 0
                             /\ TargetByte(region, i + j - 1) # scan.pattern[j]

\* The offsets of region at which a match is due, and their
\* addresses in ascending order.
MatchOffsets(region, pattern, mask) ==
    IF Scanned(region)
    THEN {i \in 0..(region.size - Len(pattern)) :
              i % 4 = 0 /\ WindowMatches(region, i, pattern, mask)}
    ELSE {}

RECURSIVE Ascending(_, _)
Ascending(base_address, offsets) ==
    IF offsets = {} THEN <<>>
    ELSE LET i == CHOOSE x \in offsets : \A y \in offsets : x <= y
         IN  <<AddrAdd(base_address, i)>> \o Ascending(base_address, offsets \ {i})

RECURSIVE ExpectedAddresses(_, _, _)
ExpectedAddresses(regions, pattern, mask) ==
    IF regions = <<>> THEN <<>>
    ELSE Ascending(Head(regions).base_address, MatchOffsets(Head(regions), pattern, mask))
         \o ExpectedAddresses(Tail(regions), pattern, mask)

\* C17: ScanForPattern returns exactly the addresses base + i, region by
\* region in configured order and by ascending i, for the offsets i that are
\* multiples of 4 with i + pattern length <= region size and a matching
\* window; no other address and none twice.
C17_ExactAddresses ==
    (scan.called /\ scan.pattern # <<>> /\ WellFormedMask) =>
        /\ scan.res.outcome = "returned"
        /\ scan.res.results =
               ExpectedAddresses(scan.scan_regions_, scan.pattern, scan.mask)

\* C18: every address a scan returns lies a multiple of 4 bytes above the
\* base of one of its regions, so an occurrence of the pattern off that
\* stride is not reported.
C18_FixedStride ==
    (scan.called /\ scan.res.outcome = "returned") =>
        \A n \in 1..Len(scan.res.results) :
            \E k \in 1..Len(scan.scan_regions_) :
                LET region == scan.scan_regions_[k]
                IN  \E i \in 0..(region.size - 1) :
                        /\ i % 4 = 0
                        /\ scan.res.results[n] = AddrAdd(region.base_address, i)

\* The pattern occurs off the stride in a scanned region; the scan returned
\* matches, and not that one.
C18_Witness ==
    /\ scan.called
    /\ scan.res.outcome = "returned"
    /\ scan.res.results # <<>>
    /\ scan.pattern # <<>>
    /\ WellFormedMask
    /\ \E k \in 1..Len(scan.scan_regions_) :
           LET region == scan.scan_regions_[k]
           IN  /\ Scanned(region)
               /\ Len(scan.pattern) <= region.size
               /\ \E i \in 0..(region.size - Len(scan.pattern)) :
                      /\ i % 4 # 0
                      /\ WindowMatches(region, i, scan.pattern, scan.mask)
                      /\ ~Reported(AddrAdd(region.base_address, i))

\* C19: a region whose read fails contributes nothing and stops nothing:
\* the scan ends as it does with the regions that cannot be read left out of
\* the list.
C19_FailedRegionSkipped ==
    scan.called =>
        scan.res = ScanForPattern(mem, SelectSeq(scan.scan_regions_, ReadSucceeds),
                                  scan.pattern, scan.mask, scan.ub)

\* The first region could not be read and the scan returned the matches of
\* the second.
C19_Witness ==
    /\ scan.called
    /\ Len(scan.scan_regions_) = 2
    /\ scan.scan_regions_[1].size > 0
    /\ scan.scan_regions_[1].base_address # NullPtr
    /\ ~ReadSucceeds(scan.scan_regions_[1])
    /\ Scanned(scan.scan_regions_[2])
    /\ scan.res.outcome = "returned"
    /\ scan.res.results # <<>>

\* C26: a scan with a non-empty mask never reads the mask at or beyond the
\* mask's length: a mask shorter than the pattern is rejected or is not
\* indexed past its end, so the scan returns and no checked index fails.
C26_MaskWithinBounds ==
    (scan.called /\ scan.pattern # <<>> /\ scan.mask # <<>> /\ PatternFits) =>
        scan.res.outcome = "returned"

\* C27: ScanRegionForPattern reads nothing outside the region buffer: a
\* region with fewer bytes than the pattern is left with zero matches and
\* the scan returns, the loop bound not wrapping.
C27_ShortRegionNoMatches ==
    (scan.called /\ scan.pattern # <<>> /\ WellFormedMask /\ ~PatternFits) =>
        /\ scan.res.outcome = "returned"
        /\ \A k \in 1..Len(scan.scan_regions_) :
               LET region == scan.scan_regions_[k]
               IN  (Scanned(region) /\ region.size < Len(scan.pattern)) =>
                       \A i \in 0..(region.size - 1) :
                           ~Reported(AddrAdd(region.base_address, i))

(***************************************************************************)
(* Specification SpecFormat: BigIntegerToString as a function              *)
(***************************************************************************)

\* The longest limb sequence formatted.
MaxFormatLimbs == 2

FormatLimbs == {ZeroWord, U32(1), U32(5), U32(10), <<0, 0, 0, 128>>, <<255, 255, 255, 255>>}

\* Valid values as ReadBigInteger hands them out: sign -1, 0 or 1, no limbs
\* exactly when the sign is 0, the most significant limb not zero.
FormatValues ==
    {v \in {[sign |-> s, bits_ptr |-> IF d = <<>> THEN NullPtr ELSE BitsBase,
             bits_length |-> Len(d), bits_data |-> d, is_valid |-> TRUE] :
                s \in {MinusOne, ZeroWord, U32(1)},
                d \in UNION {[1..n -> FormatLimbs] : n \in 0..MaxFormatLimbs}} :
        /\ (v.sign = ZeroWord) <=> (v.bits_data = <<>>)
        /\ v.bits_data # <<>> => v.bits_data[v.bits_length] # ZeroWord}

InitFormat ==
    /\ mem = NoMemory
    /\ cipher = Idle
    /\ bigint = Idle
    /\ raw = Idle
    /\ record = Idle
    /\ decrypted = Idle
    /\ overlay = Idle
    /\ scan = Idle
    /\ stepwise = Idle
    /\ format \in {[called |-> FALSE, bigint |-> v] : v \in FormatValues}
    /\ threads = Idle
    /\ logger = Idle
    /\ verbose = Idle
    /\ procmgr = Idle
    /\ parser = Idle

\* A call of DotNetBigIntegerReader::BigIntegerToString.
CallBigIntegerToString ==
    /\ ~format.called
    /\ format' = [called |-> TRUE, bigint |-> format.bigint,
                  out |-> BigIntegerToString(format.bigint)]
    /\ UNCHANGED <<mem, cipher, bigint, raw, record, decrypted, overlay, scan, stepwise,
                 threads, logger, verbose, procmgr, parser>>

NextFormat == CallBigIntegerToString

SpecFormat == InitFormat /\ [][NextFormat]_vars

\* The bytes of the magnitude sum of limbs[i] * 2^(32 * i), most significant
\* first.
RECURSIVE MagnitudeBytes(_)
MagnitudeBytes(limbs) ==
    IF limbs = <<>> THEN <<>>
    ELSE MagnitudeBytes(Tail(limbs)) \o BigEndian(Head(limbs))

\* The decimal text of the signed integer sign * magnitude.
DecimalText(sign, limbs) ==
    IF DecimalDigits(MagnitudeBytes(limbs)) = <<>> \/ sign = ZeroWord THEN <<"0">>
    ELSE (IF sign = MinusOne THEN <<"-">> ELSE <<>>) \o DecimalDigits(MagnitudeBytes(limbs))

\* C20: BigIntegerToString of a valid value is the decimal text of
\* sign * (sum of limbs[i] * 2^(32 * i)).
C20_DecimalText ==
    format.called =>
        format.out = DecimalText(format.bigint.sign, format.bigint.bits_data)

(***************************************************************************)
(* Specification SpecThreads: two threads in read calls of their own over  *)
(* memory that does not change, sharing the AppLogger                      *)
(***************************************************************************)
Threads == {"A", "B"}

\* AppLogger::IncreaseIndent, under indent_mutex_.
IncreaseIndent(l) == [l EXCEPT !.indent_level_ = @ + 1]

\* AppLogger::DecreaseIndent, under indent_mutex_.
DecreaseIndent(l) ==
    IF l.indent_level_ > 0 THEN [l EXCEPT !.indent_level_ = @ - 1] ELSE l

\* One image whose hidden value has no limb array (the value view fails on
\* the null pointer), one whose both values have limbs, and one whose
\* region ends before the decoy value.
ThreadImages ==
    {RecordImage(ZeroWord, NullPtr, <<>>, 230, <<ZeroWord, NullPtr>>, U32(255), 0),
     RecordImage(U32(1), BitsBase, <<U32(5)>>, 230, <<U32(1), BitsBase>>, U32(255), 1),
     RecordImage(U32(1), BitsBase, <<U32(5)>>, 124, <<U32(1), BitsBase>>, U32(255), 1)}

ThreadCalls == {"ReadBigInteger", "ReadObscuredBigInteger"}

ThreadAddresses == {StructBase, TooLow}

InitThreads ==
    /\ mem \in ThreadImages
    /\ cipher = Idle
    /\ bigint = Idle
    /\ raw = Idle
    /\ record = Idle
    /\ decrypted = Idle
    /\ overlay = Idle
    /\ scan = Idle
    /\ stepwise = Idle
    /\ format = Idle
    /\ threads = [t \in Threads |->
                    [pc |-> "idle", call |-> "none", address |-> NullPtr,
                     g |-> CHOOSE g \in Garbage : TRUE,
                     hidden_value |-> None, fake_value |-> None, res |-> None]]
    /\ logger = [indent_level_ |-> 0]
    /\ verbose = Idle
    /\ procmgr = Idle
    /\ parser = Idle

\* Thread t calls ReadBigInteger or ReadObscuredBigInteger; g is what the
\* storage of its locals holds.  ReadObscuredBigInteger checks base_address
\* first.
ThreadBegin(t, call, base_address, g) ==
    /\ threads[t].pc = "idle"
    /\ threads' = [threads EXCEPT ![t] =
                     [@ EXCEPT !.call = call, !.address = base_address, !.g = g,
                               !.pc = IF call = "ReadBigInteger" THEN "plain"
                                      ELSE IF Obscured_IsValidPointer(base_address)
                                      THEN "hidden_enter" ELSE "done"]]
    /\ UNCHANGED <<mem, cipher, bigint, raw, record, decrypted, overlay, scan, stepwise,
                   format, logger, verbose, procmgr, parser>>

\* Thread t runs its ReadBigInteger call, which takes no indent.
ThreadReadBigInteger(t) ==
    /\ threads[t].pc = "plain"
    /\ threads' = [threads EXCEPT ![t] =
                     [@ EXCEPT !.pc = "done",
                               !.res = ReadBigInteger(mem, threads[t].address)]]
    /\ UNCHANGED <<mem, cipher, bigint, raw, record, decrypted, overlay, scan, stepwise,
                   format, logger, verbose, procmgr, parser>>

\* Thread t enters ReadSerializableBigInteger: LOG_INDENT() constructs the
\* LogIndenter, which increases the shared indent.
ThreadEnter(t) ==
    /\ threads[t].pc \in {"hidden_enter", "fake_enter"}
    /\ logger' = IncreaseIndent(logger)
    /\ threads' = [threads EXCEPT ![t].pc =
                     IF @ = "hidden_enter" THEN "hidden_read" ELSE "fake_read"]
    /\ UNCHANGED <<mem, cipher, bigint, raw, record, decrypted, overlay, scan, stepwise,
                   format, verbose, procmgr, parser>>

\* Thread t reads the two views of the hidden or of the decoy value.
ThreadReadField(t) ==
    /\ threads[t].pc \in {"hidden_read", "fake_read"}
    /\ threads' = [threads EXCEPT ![t] =
                     IF threads[t].pc = "hidden_read"
                     THEN [@ EXCEPT !.pc = "hidden_leave",
                                    !.hidden_value =
                                        ReadSerializableBigInteger(mem, threads[t].address,
                                                                   threads[t].g)]
                     ELSE [@ EXCEPT !.pc = "fake_leave",
                                    !.fake_value =
                                        ReadSerializableBigInteger(
                                            mem,
                                            AddrAdd(threads[t].address,
                                                    SizeofSerializableBigInteger),
                                            threads[t].g)]]
    /\ UNCHANGED <<mem, cipher, bigint, raw, record, decrypted, overlay, scan, stepwise,
                   format, logger, verbose, procmgr, parser>>

\* Thread t leaves ReadSerializableBigInteger: the LogIndenter is destroyed
\* and decreases the shared indent; a value that could not be read ends the
\* call.
ThreadLeave(t) ==
    /\ threads[t].pc \in {"hidden_leave", "fake_leave"}
    /\ logger' = DecreaseIndent(logger)
    /\ threads' = [threads EXCEPT ![t].pc =
                     IF @ = "hidden_leave"
                     THEN (IF threads[t].hidden_value.ok THEN "fake_enter" ELSE "done")
                     ELSE (IF threads[t].fake_value.ok THEN "key" ELSE "done")]
    /\ UNCHANGED <<mem, cipher, bigint, raw, record, decrypted, overlay, scan, stepwise,
                   format, verbose, procmgr, parser>>

\* Thread t reads the key and the flags and returns.
ThreadKeyAndFlags(t) ==
    /\ threads[t].pc = "key"
    /\ threads' = [threads EXCEPT ![t] =
                     [@ EXCEPT !.pc = "done",
                               !.res = ReadKeyAndFlags(
                                           mem,
                                           AddrAdd(AddrAdd(threads[t].address,
                                                           SizeofSerializableBigInteger),
                                                   SizeofSerializableBigInteger),
                                           threads[t].hidden_value.value,
                                           threads[t].fake_value.value,
                                           <<>>).res]]
    /\ UNCHANGED <<mem, cipher, bigint, raw, record, decrypted, overlay, scan, stepwise,
                   format, logger, verbose, procmgr, parser>>

NextThreads ==
    \/ \E t \in Threads, call \in ThreadCalls, base_address \in ThreadAddresses,
          g \in Garbage : ThreadBegin(t, call, base_address, g)
    \/ \E t \in Threads : ThreadReadBigInteger(t)
    \/ \E t \in Threads : ThreadEnter(t)
    \/ \E t \in Threads : ThreadReadField(t)
    \/ \E t \in Threads : ThreadLeave(t)
    \/ \E t \in Threads : ThreadKeyAndFlags(t)

SpecThreads == InitThreads /\ [][NextThreads]_vars

\* What the call of thread t returns when it runs with no other thread.
AloneResult(t) ==
    IF threads[t].call = "ReadBigInteger"
    THEN ReadBigInteger(mem, threads[t].address)
    ELSE ReadObscuredBigInteger(mem, threads[t].address, threads[t].g).res

\* However the two calls interleave, each returns what it returns alone over
\* the same memory with the same storage for its locals, and the shared
\* indent is back at 0 when both have returned.
ThreadsRunAsAlone ==
    /\ \A t \in Threads : threads[t].pc = "done" => threads[t].res = AloneResult(t)
    /\ (\A t \in Threads : threads[t].pc = "done") => logger.indent_level_ = 0

\* Both threads are inside ReadSerializableBigInteger at once: the shared
\* indent stands at 2.
BothInside ==
    /\ logger.indent_level_ = 2
    /\ \A t \in Threads : threads[t].pc \in {"hidden_read", "fake_read"}

\* C25: the result of a read call is a function only of its address argument
\* and the bytes its reads return: two calls of the same operation on the
\* same address over the same unchanged memory return the same result,
\* however they interleave.
C25_ResultFunctionOfAddressAndBytes ==
    \A t, u \in Threads :
        (/\ threads[t].pc = "done"
         /\ threads[u].pc = "done"
         /\ threads[t].call = threads[u].call
         /\ threads[t].address = threads[u].address) =>
            threads[t].res = threads[u].res

(***************************************************************************)
(* Specification SpecVerbose: a plain reader and its verbose counterpart   *)
(* called on the same address over the same memory                         *)
(***************************************************************************)
VerboseImages ==
    {RecordImage(s, q, d, 230, f, U32(255), 1) :
        s \in {ZeroWord, U32(1)},
        q \in {BitsBase, NullPtr, TooLow},
        d \in {<<>>, <<U32(5)>>, <<U32(1), U32(2), U32(3)>>},
        f \in {<<ZeroWord, NullPtr>>, <<U32(1), BitsBase>>}}
    \cup
    {RecordImage(U32(1), BitsBase, <<U32(5)>>, n, <<U32(1), BitsBase>>, U32(255), 1) :
        n \in {2, 8, 24, 124, 226, 228, 229}}

VerboseAddresses == {StructBase, TooLow, NotMapped}

InitVerbose ==
    /\ mem \in VerboseImages
    /\ cipher = Idle
    /\ bigint = Idle
    /\ raw = Idle
    /\ record = Idle
    /\ decrypted = Idle
    /\ overlay = Idle
    /\ scan = Idle
    /\ stepwise = Idle
    /\ format = Idle
    /\ threads = Idle
    /\ logger = Idle
    /\ verbose = Idle
    /\ procmgr = Idle
    /\ parser = Idle

\* ReadBigInteger and ReadBigIntegerVerbose on the same address.
CallBigIntegerReaders(base_address) ==
    /\ ~verbose.called
    /\ verbose' = [called  |-> TRUE,
                   op      |-> "ReadBigInteger",
                   address |-> base_address,
                   plain   |-> ReadBigInteger(mem, base_address),
                   wordy   |-> ReadBigIntegerVerbose(mem, base_address),
                   g       |-> CHOOSE g \in Garbage : TRUE]
    /\ UNCHANGED <<mem, cipher, bigint, raw, record, decrypted, overlay, scan, stepwise,
                   format, threads, logger, procmgr, parser>>

\* ReadObscuredBigInteger and ReadObscuredBigIntegerVerbose on the same
\* address; g_plain and g_verbose are what the locals of either call hold
\* before they are assigned.
CallObscuredReaders(base_address, g_plain, g_verbose) ==
    /\ ~verbose.called
    /\ verbose' = [called  |-> TRUE,
                   op      |-> "ReadObscuredBigInteger",
                   address |-> base_address,
                   plain   |-> ReadObscuredBigInteger(mem, base_address, g_plain).res,
                   wordy   |-> ReadObscuredBigIntegerVerbose(mem, base_address,
                                                             g_verbose).res,
                   g       |-> g_verbose]
    /\ UNCHANGED <<mem, cipher, bigint, raw, record, decrypted, overlay, scan, stepwise,
                   format, threads, logger, procmgr, parser>>

NextVerbose ==
    \/ \E base_address \in VerboseAddresses : CallBigIntegerReaders(base_address)
    \/ \E base_address \in VerboseAddresses, g_plain \in Garbage, g_verbose \in Garbage :
           CallObscuredReaders(base_address, g_plain, g_verbose)

SpecVerbose == InitVerbose /\ [][NextVerbose]_vars

\* ReadBigIntegerVerbose returns what ReadBigInteger returns, and
\* ReadObscuredBigIntegerVerbose returns what ReadObscuredBigInteger returns
\* when its locals start from the same storage.
VerboseSameReadsSameStorage ==
    verbose.called =>
        IF verbose.op = "ReadBigInteger" THEN verbose.wordy = verbose.plain
        ELSE verbose.wordy =
                 ReadObscuredBigInteger(mem, verbose.address, verbose.g).res

\* C28: each verbose reader returns the outcome of its plain counterpart:
\* failure where the plain reader fails, and otherwise the same value.
C28_VerboseEquivalent ==
    verbose.called => verbose.wordy = verbose.plain

(***************************************************************************)
(* Specification SpecProcess: ProcessManager attaching to and detaching    *)
(* from target processes                                                   *)
(***************************************************************************)
\* nullptr as a HANDLE, and the handle values OpenProcess may return.
NullHandle == "nullptr"

Handles == {"h1", "h2", "h3"}

\* Process ids a caller asks for.
ProcessIDs == {4, 1234}

\* ProcessManager::IsAttached.
IsAttached(pm) == pm.process_handle_ # NullHandle

\* ProcessManager::GetProcessID.
GetProcessID(pm) == pm.process_id_

\* ProcessManager::DetachFromProcess on the manager's own fields; open is
\* the set of handles the operating system holds open for this program.
DetachFromProcess(pm) ==
    IF pm.process_handle_ # NullHandle
    THEN [pm EXCEPT !.open = @ \ {pm.process_handle_},
                    !.process_handle_ = NullHandle,
                    !.process_id_ = 0]
    ELSE pm

\* ProcessManager::ReadMemory: false when not attached, else the size checks
\* and ReadProcessMemory.
ProcessManager_ReadMemory(pm, m, address, size) ==
    IF ~IsAttached(pm) THEN FALSE ELSE ReadMemory(m, address, size).ok

\* ProcessManager::WriteMemory: whether it returns true; a write of size
\* bytes succeeds when all of them are mapped.
ProcessManager_WriteMemory(pm, m, address, size) ==
    IF ~IsAttached(pm) THEN FALSE
    ELSE IF size = 0 THEN FALSE
    ELSE /\ AddrIndex(address) >= 0
         /\ \A i \in 0..(size - 1) : IsMapped(m, AddrIndex(address) + i)

InitProcess ==
    /\ mem \in {Image([hSign |-> U32(1), hPtr |-> BitsBase, limbs |-> <<U32(5)>>,
                       len |-> n, bitsMapped |-> 128,
                       nSign |-> ZeroWord, nPtr |-> NullPtr, nKey |-> U32(255),
                       nActive |-> 0, nInited |-> 1]) : n \in {2, 24}}
    /\ cipher = Idle
    /\ bigint = Idle
    /\ raw = Idle
    /\ record = Idle
    /\ decrypted = Idle
    /\ overlay = Idle
    /\ scan = Idle
    /\ stepwise = Idle
    /\ format = Idle
    /\ threads = Idle
    /\ logger = Idle
    /\ verbose = Idle
    /\ procmgr = [process_id_ |-> 0, process_handle_ |-> NullHandle, open |-> {},
                  last |-> [op |-> "ProcessManager"]]
    /\ parser = Idle

\* A plausible slip: the process attached to before is not detached from.
AttachToProcess_KeepsOld(pid, full_access, reduced) ==
    /\ \/ /\ full_access = NullHandle
          /\ reduced = NullHandle
          /\ procmgr' = [procmgr EXCEPT
                            !.last = [op |-> "AttachToProcess", pid |-> pid,
                                      attached |-> IsAttached(procmgr),
                                      returned |-> FALSE]]
       \/ /\ full_access # NullHandle \/ reduced # NullHandle
          /\ LET handle == IF full_access # NullHandle THEN full_access ELSE reduced
             IN  /\ handle \notin procmgr.open
                 /\ procmgr' = [process_id_     |-> pid,
                                process_handle_ |-> handle,
                                open            |-> procmgr.open \cup {handle},
                                last            |-> [op |-> "AttachToProcess",
                                                     pid |-> pid,
                                                     attached |-> IsAttached(procmgr),
                                                     returned |-> TRUE]]
    /\ UNCHANGED <<mem, cipher, bigint, raw, record, decrypted, overlay, scan, stepwise,
                   format, threads, logger, verbose, parser>>

\* ProcessManager::AttachToProcess(pid).  full_access and reduced are what
\* the two OpenProcess calls return: a handle not open so far, or nullptr;
\* the second call is made only when the first returned nullptr.
AttachToProcess(pid, full_access, reduced) ==
    /\ LET detached == DetachFromProcess(procmgr)
       IN  \/ /\ full_access = NullHandle
              /\ reduced = NullHandle
              /\ procmgr' = [detached EXCEPT
                                !.last = [op |-> "AttachToProcess", pid |-> pid,
                                          attached |-> IsAttached(procmgr),
                                          returned |-> FALSE]]
           \/ /\ full_access # NullHandle \/ reduced # NullHandle
              /\ LET handle == IF full_access # NullHandle THEN full_access ELSE reduced
                 IN  /\ handle \notin detached.open
                     /\ procmgr' = [process_id_     |-> pid,
                                    process_handle_ |-> handle,
                                    open            |-> detached.open \cup {handle},
                                    last            |-> [op |-> "AttachToProcess",
                                                         pid |-> pid,
                                                         attached |-> IsAttached(procmgr),
                                                         returned |-> TRUE]]
    /\ UNCHANGED <<mem, cipher, bigint, raw, record, decrypted, overlay, scan, stepwise,
                   format, threads, logger, verbose, parser>>

\* A call of ProcessManager::DetachFromProcess.
CallDetachFromProcess ==
    /\ procmgr' = [DetachFromProcess(procmgr) EXCEPT !.last = [op |-> "DetachFromProcess"]]
    /\ UNCHANGED <<mem, cipher, bigint, raw, record, decrypted, overlay, scan, stepwise,
                   format, threads, logger, verbose, parser>>

\* A call of ProcessManager::ReadMemory with a buffer of size bytes.
CallReadMemory(address, size) ==
    /\ procmgr' = [procmgr EXCEPT
                      !.last = [op |-> "ReadMemory", address |-> address, size |-> size,
                                attached |-> IsAttached(procmgr),
                                returned |-> ProcessManager_ReadMemory(procmgr, mem,
                                                                       address, size)]]
    /\ UNCHANGED <<mem, cipher, bigint, raw, record, decrypted, overlay, scan, stepwise,
                   format, threads, logger, verbose, parser>>

\* A call of ProcessManager::WriteMemory with a buffer of size bytes 7.
CallWriteMemory(address, size) ==
    /\ LET returned == ProcessManager_WriteMemory(procmgr, mem, address, size)
       IN  /\ procmgr' = [procmgr EXCEPT
                             !.last = [op |-> "WriteMemory", address |-> address,
                                       size |-> size,
                                       attached |-> IsAttached(procmgr),
                                       returned |-> returned]]
           /\ mem' = IF returned
                     THEN [mem EXCEPT !.data =
                              Place(AddrIndex(address), [i \in 1..size |-> 7]) @@ @]
                     ELSE mem
    /\ UNCHANGED <<cipher, bigint, raw, record, decrypted, overlay, scan, stepwise,
                   format, threads, logger, verbose, parser>>

NextProcess ==
    \/ \E pid \in ProcessIDs, full_access \in Handles \cup {NullHandle},
          reduced \in Handles \cup {NullHandle} :
           /\ full_access # NullHandle => reduced = NullHandle
           /\ AttachToProcess(pid, full_access, reduced)
    \/ CallDetachFromProcess
    \/ \E address \in {StructBase, NotMapped}, size \in {0, 1, 4} :
           CallReadMemory(address, size)
    \/ \E address \in {StructBase, NotMapped}, size \in {0, 1} :
           CallWriteMemory(address, size)

SpecProcess == InitProcess /\ [][NextProcess]_vars

\* C29: after any sequence of AttachToProcess and DetachFromProcess calls,
\* whatever OpenProcess returned, the only handle open is the one the
\* manager holds (at most one open, none leaked), a manager that is not
\* attached has process id 0, and ReadMemory and WriteMemory called on a
\* manager that is not attached return false.
C29_SingleHandle ==
    /\ Cardinality(procmgr.open) <= 1
    /\ procmgr.open = (IF IsAttached(procmgr) THEN {procmgr.process_handle_} ELSE {})
    /\ ~IsAttached(procmgr) => GetProcessID(procmgr) = 0
    /\ (procmgr.last.op \in {"ReadMemory", "WriteMemory"} /\ ~procmgr.last.attached) =>
           ~procmgr.last.returned
    /\ (procmgr.last.op = "AttachToProcess") =>
           (procmgr.last.returned <=> IsAttached(procmgr))

\* A manager attached to one process was asked to attach to another and both
\* OpenProcess calls failed: it is detached, its id is 0 and no handle is
\* open.
C29_Witness ==
    /\ procmgr.last.op = "AttachToProcess"
    /\ procmgr.last.attached
    /\ ~procmgr.last.returned
    /\ ~IsAttached(procmgr)
    /\ GetProcessID(procmgr) = 0
    /\ procmgr.open = {}

(***************************************************************************)
(* Specification SpecParser: DotNetParser and its method-table cache       *)
(***************************************************************************)
\* sizeof(ObjectHeader) and sizeof(MethodTable) on a 64-bit build.
SizeofObjectHeader == 4

SizeofMethodTable == 40

U16(n) == << n % 256, (n \div 256) % 256 >>

METHOD_TABLE_MAX_SIZE == U32(4096)

\* DotNetParser::IsValidPointer.
Parser_IsValidPointer(addr) ==
    /\ addr # NullPtr
    /\ LessEq(U64(65536), addr)
    /\ LessEq(addr, <<255, 255, 255, 255, 255, 127, 0, 0>>)

\* DotNetParser::ValidateMethodTable.
ValidateMethodTable(mt) ==
    /\ LessEq(U32(4), mt.base_size)
    /\ LessEq(mt.base_size, METHOD_TABLE_MAX_SIZE)
    /\ LessEq(mt.num_vtable_slots, U16(10000))
    /\ LessEq(mt.num_interfaces, U16(1000))
    /\ mt.parent_method_table = NullPtr \/ Parser_IsValidPointer(mt.parent_method_table)
    /\ mt.module_ptr = NullPtr \/ Parser_IsValidPointer(mt.module_ptr)
    /\ mt.ee_class_ptr = NullPtr \/ Parser_IsValidPointer(mt.ee_class_ptr)

\* The read of sizeof(MethodTable) bytes into a MethodTable.
ReadMethodTable(m, addr) ==
    LET b == ReadMemory(m, addr, SizeofMethodTable)
    IN  IF ~b.ok THEN None
        ELSE Some([flags               |-> SubSeq(b.value, 1, 4),
                   base_size           |-> SubSeq(b.value, 5, 8),
                   flags2              |-> SubSeq(b.value, 9, 10),
                   token               |-> SubSeq(b.value, 11, 12),
                   num_vtable_slots    |-> SubSeq(b.value, 13, 14),
                   num_interfaces      |-> SubSeq(b.value, 15, 16),
                   parent_method_table |-> SubSeq(b.value, 17, 24),
                   module_ptr          |-> SubSeq(b.value, 25, 32),
                   ee_class_ptr        |-> SubSeq(b.value, 33, 40)])

\* DotNetParser::CacheMethodTable on method_table_cache_, a map from
\* addresses to method tables.
CacheMethodTable(method_table_cache_, addr, mt) ==
    [a \in (DOMAIN method_table_cache_) \cup {addr} |->
        IF a = addr THEN mt ELSE method_table_cache_[a]]

\* DotNetParser::GetCachedMethodTable.
GetCachedMethodTable(method_table_cache_, addr) ==
    IF addr \in DOMAIN method_table_cache_ THEN Some(method_table_cache_[addr]) ELSE None

\* DotNetParser::ClearMethodTableCache.
ClearMethodTableCache == <<>>

\* DotNetParser::GetMethodTable: what it returns and the cache it leaves.
\* The cache is looked up under object_addr and filled under
\* method_table_addr.
GetMethodTable(method_table_cache_, m, object_addr) ==
    IF ~Parser_IsValidPointer(object_addr)
    THEN [res |-> None, cache |-> method_table_cache_]
    ELSE
    LET cached == GetCachedMethodTable(method_table_cache_, object_addr) IN
    IF cached.ok THEN [res |-> cached, cache |-> method_table_cache_]
    ELSE
    LET method_table_addr == ReadMemory(m, AddrAdd(object_addr, SizeofObjectHeader), 8) IN
    IF ~method_table_addr.ok THEN [res |-> None, cache |-> method_table_cache_]
    ELSE IF ~Parser_IsValidPointer(method_table_addr.value)
    THEN [res |-> None, cache |-> method_table_cache_]
    ELSE
    LET mt == ReadMethodTable(m, method_table_addr.value) IN
    IF ~mt.ok THEN [res |-> None, cache |-> method_table_cache_]
    ELSE IF ~ValidateMethodTable(mt.value)
    THEN [res |-> None, cache |-> method_table_cache_]
    ELSE [res   |-> mt,
          cache |-> CacheMethodTable(method_table_cache_, method_table_addr.value,
                                     mt.value)]

\* The bytes of a method table with the given base_size and vtable slots.
MethodTableBytes(base_size, slots) ==
    U32(1) \o base_size \o U16(0) \o U16(0) \o slots \o U16(2)
    \o NullPtr \o U64(327680) \o NullPtr

\* A second object, 16 bytes above the first.
SecondObject == U64(131088)

\* Targets: an object at StructBase and one at SecondObject, each a header
\* and a method-table pointer, and a method table at BitsBase.
ParserImage(first_ptr, second_ptr, base_size, slots) ==
    LET sb == AddrIndex(StructBase)
        bb == AddrIndex(BitsBase)
    IN  [regions |-> {<<sb, sb + 32>>, <<bb, bb + 48>>},
         data    |-> NonZeroBelow(Place(sb, ZeroWord \o first_ptr)
                                  @@ Place(sb + 16, ZeroWord \o second_ptr), sb + 32)
                     @@ NonZeroBelow(Place(bb, MethodTableBytes(base_size, slots)),
                                     bb + 48)]

ParserImages ==
    {ParserImage(p, q, b, n) :
        p \in {BitsBase, NullPtr, NotMapped},
        q \in {BitsBase, TooLow},
        b \in {U32(24), U32(2)},
        n \in {U16(5), U16(20000)}}

ParserAddresses == {StructBase, SecondObject, BitsBase, TooLow}

InitParser ==
    /\ mem \in ParserImages
    /\ cipher = Idle
    /\ bigint = Idle
    /\ raw = Idle
    /\ record = Idle
    /\ decrypted = Idle
    /\ overlay = Idle
    /\ scan = Idle
    /\ stepwise = Idle
    /\ format = Idle
    /\ threads = Idle
    /\ logger = Idle
    /\ verbose = Idle
    /\ procmgr = Idle
    /\ parser = [method_table_cache_ |-> <<>>, last |-> [op |-> "DotNetParser"]]

\* A call of DotNetParser::GetMethodTable(object_addr).
CallGetMethodTable(object_addr) ==
    /\ LET r == GetMethodTable(parser.method_table_cache_, mem, object_addr)
       IN  parser' = [method_table_cache_ |-> r.cache,
                      last |-> [op |-> "GetMethodTable", object_addr |-> object_addr,
                                hit |-> object_addr \in DOMAIN parser.method_table_cache_,
                                returned |-> r.res]]
    /\ UNCHANGED <<mem, cipher, bigint, raw, record, decrypted, overlay, scan, stepwise,
                   format, threads, logger, verbose, procmgr>>

\* A call of DotNetParser::CacheMethodTable(addr, mt) by a caller that has
\* read mt from addr itself.
CallCacheMethodTable(addr) ==
    /\ ReadMethodTable(mem, addr).ok
    /\ parser' = [method_table_cache_ |->
                      CacheMethodTable(parser.method_table_cache_, addr,
                                       ReadMethodTable(mem, addr).value),
                  last |-> [op |-> "CacheMethodTable", object_addr |-> addr]]
    /\ UNCHANGED <<mem, cipher, bigint, raw, record, decrypted, overlay, scan, stepwise,
                   format, threads, logger, verbose, procmgr>>

\* A call of DotNetParser::ClearMethodTableCache.
CallClearMethodTableCache ==
    /\ parser' = [method_table_cache_ |-> ClearMethodTableCache,
                  last |-> [op |-> "ClearMethodTableCache"]]
    /\ UNCHANGED <<mem, cipher, bigint, raw, record, decrypted, overlay, scan, stepwise,
                   format, threads, logger, verbose, procmgr>>

NextParser ==
    \/ \E object_addr \in ParserAddresses : CallGetMethodTable(object_addr)
    \/ \E addr \in ParserAddresses : CallCacheMethodTable(addr)
    \/ CallClearMethodTableCache

SpecParser == InitParser /\ [][NextParser]_vars

\* What GetMethodTable returns for object_addr with nothing cached.
FreshMethodTable(object_addr) == GetMethodTable(<<>>, mem, object_addr).res

\* A lookup that misses the cache returns what a fresh read returns.
MissIsFreshRead ==
    (parser.last.op = "GetMethodTable" /\ ~parser.last.hit) =>
        parser.last.returned = FreshMethodTable(parser.last.object_addr)

\* C30: the cache is transparent: after any sequence of GetMethodTable,
\* CacheMethodTable and ClearMethodTableCache calls, GetMethodTable returns
\* for an object address what a fresh read of target memory returns for it.
C30_CacheTransparent ==
    parser.last.op = "GetMethodTable" =>
        parser.last.returned = FreshMethodTable(parser.last.object_addr)

====
